---- MODULE Spec2Model ----
(***************************************************************************)
(* Scheduling engine of gantt_chart_generator: the plan tree               *)
(* (project_models.py) and schedule_project (scheduling.py).                *)
(*                                                                         *)
(* The plan tree is kept as the pre-order (document order) sequence of its *)
(* nodes, each with its nesting depth: a phase has depth 0, an item of a   *)
(* phase depth 1, a child of a task one more than the task.  A WBS code    *)
(* "0.1.2" is the sequence of its dot-separated components <<0, 1, 2>>.    *)
(* Dates are day numbers.                                                  *)
(***************************************************************************)
EXTENDS Integers, Sequences, FiniteSets, TLC

VARIABLES
    nodes,       \* the Project: pre-order sequence of Phase/Task/WorkPackage/Milestone
    pc,          \* position of the caller / of schedule_project
    entry,       \* the plan as it was when schedule_project was entered
    error,       \* the exception schedule_project raised (NoError while none)
    topo_order,  \* _toposort's result: work package positions in processing order
    cursor,      \* number of work packages _schedule_work_packages has processed
    spans,       \* compute_group_spans' result: wbs -> <<span_start, span_finish>>
    route,       \* the dependency router: its rectangles, position, locals, result
    cli,         \* the command line's main(): its position, rows, outcomes, exit code
    calls        \* number of calls of schedule_project made on the plan

\* The variables of schedule_project and of its caller.
sched == <<nodes, pc, entry, error, topo_order, cursor, spans, calls>>

vars == <<nodes, pc, entry, error, topo_order, cursor, spans, route, cli, calls>>

----------------------------------------------------------------------------
\* Bounds of the model.

MaxNodes == 4
MaxDate == 2
MaxDur == 2
MaxDepEdges == 2
MaxOddIds == 1
\* Bounds of the dependency graphs of SpecGraph: work packages, and entries
\* of one depends_on list.
GraphWps == 3
GraphDeps == 2

\* Layouts given to the router: up to MaxRects one-day bars, starting 0 to
\* MaxHalfDays half days in, in rows 0 to MaxRow.
MaxRects == 3
MaxHalfDays == 4
MaxRow == 1

\* Charts drawn from scheduled plans: the first work package lasts up to
\* MaxBarDays days.
MaxBarDays == 6

\* Calls of schedule_project on one plan: at most MaxCalls.
MaxCalls == 2

\* `None` of an optional date (start_date: date | None = None).
None == -1000

\* A wbs no node of a generated plan carries ("missing" in the tests).
MissingId == <<7>>
\* A wbs outside every hierarchy of a generated plan.
AlienId == <<9>>

Dates == 1..MaxDate
OptDates == {None} \cup Dates
Durations == 0..MaxDur

----------------------------------------------------------------------------
\* project_models.py: the node types.

Phase(wbs, depth) ==
    [kind |-> "Phase", wbs |-> wbs, depth |-> depth, duration_days |-> 0,
     start_date |-> None, depends_on |-> <<>>, deadline_date |-> None]

Task(wbs, depth) ==
    [kind |-> "Task", wbs |-> wbs, depth |-> depth, duration_days |-> 0,
     start_date |-> None, depends_on |-> <<>>, deadline_date |-> None]

WorkPackage(wbs, depth, duration_days, start_date) ==
    [kind |-> "WorkPackage", wbs |-> wbs, depth |-> depth,
     duration_days |-> duration_days, start_date |-> start_date,
     depends_on |-> <<>>, deadline_date |-> None]

Milestone(wbs, depth, deadline_date) ==
    [kind |-> "Milestone", wbs |-> wbs, depth |-> depth, duration_days |-> 0,
     start_date |-> None, depends_on |-> <<>>, deadline_date |-> deadline_date]

\* WorkPackage.finish_date: inclusive finish, None while start_date is None.
finish_date(wp) ==
    IF wp.start_date = None THEN None
    ELSE wp.start_date + (wp.duration_days - 1)

----------------------------------------------------------------------------
\* Tree navigation over the pre-order sequence.

IsContainer(n) == n.kind \in {"Phase", "Task"}

\* The node owning node i in its items list (0 for a phase).
Parent(ns, i) ==
    IF ns[i].depth = 0 THEN 0
    ELSE LET cands == {j \in 1..(i - 1) : ns[j].depth = ns[i].depth - 1}
         IN  CHOOSE j \in cands : \A k \in cands : k <= j

\* The items list of node i, as positions in document order.
Children(ns, i) == {j \in (i + 1)..Len(ns) : Parent(ns, j) = i}

\* _walk_work_packages: the work packages in document order.
RECURSIVE WalkFrom(_, _)
WalkFrom(ns, i) ==
    IF i > Len(ns) THEN <<>>
    ELSE IF ns[i].kind = "WorkPackage" THEN <<i>> \o WalkFrom(ns, i + 1)
    ELSE WalkFrom(ns, i + 1)

_walk_work_packages(ns) == WalkFrom(ns, 1)

WpSet(ns) == {i \in 1..Len(ns) : ns[i].kind = "WorkPackage"}

\* wbs_lookup.get / lookup[...]: the first node registered under a wbs, 0 if none.
Lookup(ns, w) ==
    LET hits == {i \in 1..Len(ns) : ns[i].wbs = w}
    IN  IF hits = {} THEN 0 ELSE CHOOSE i \in hits : \A k \in hits : i <= k

----------------------------------------------------------------------------
\* Errors.

\* An exception: its class, which raise statement it comes from, and the
\* values its message is formatted from (at: the wbs it is about, other: the
\* second wbs, kinds: node type names, value: numbers and dates, path: the
\* cycle path).
NoError ==
    [type |-> "none", reason |-> "none", at |-> <<>>, other |-> <<>>,
     kinds |-> <<>>, value |-> <<>>, path |-> <<>>]

ProjectValidationError(reason, at, other, kinds, value, path) ==
    [type |-> "ProjectValidationError", reason |-> reason, at |-> at,
     other |-> other, kinds |-> kinds, value |-> value, path |-> path]

SchedulingError(reason, at, other, value) ==
    [type |-> "SchedulingError", reason |-> reason, at |-> at, other |-> other,
     kinds |-> <<>>, value |-> value, path |-> <<>>]

----------------------------------------------------------------------------
\* _validate_unique_wbs: registers phases and items in document order; the
\* first wbs met a second time raises.

\* Mutant of DuplicateAt: a wbs is looked up among the nodes of the same type only.
DuplicateAtSameKind(ns) ==
    {j \in 1..Len(ns) :
        \E i \in 1..(j - 1) : ns[i].wbs = ns[j].wbs /\ ns[i].kind = ns[j].kind}

DuplicateAt(ns) == {j \in 1..Len(ns) : \E i \in 1..(j - 1) : ns[i].wbs = ns[j].wbs}

FirstOf(S) == CHOOSE i \in S : \A k \in S : i <= k

_validate_unique_wbs(ns) ==
    IF DuplicateAt(ns) = {} THEN NoError
    ELSE LET j == FirstOf(DuplicateAt(ns))
         IN  ProjectValidationError("duplicate", ns[j].wbs, <<>>,
                                    <<ns[Lookup(ns, ns[j].wbs)].kind, ns[j].kind>>,
                                    <<>>, <<>>)

\* child.startswith(parent + "."): on component sequences, the parent's
\* components are a proper prefix of the child's.
StartsWithPrefix(parent, child) ==
    /\ Len(child) > Len(parent)
    /\ SubSeq(child, 1, Len(parent)) = parent

\* Mutant of HierarchyFaults: only the items of the phases are visited.
HierarchyFaultsOfPhaseItems(ns) ==
    {i \in 1..Len(ns) : ns[i].depth = 1
                        /\ ~StartsWithPrefix(ns[Parent(ns, i)].wbs, ns[i].wbs)}

\* _validate_wbs_hierarchy: pre-order visit, first item not under its parent's wbs.
HierarchyFaults(ns) ==
    {i \in 1..Len(ns) : ns[i].depth > 0
                        /\ ~StartsWithPrefix(ns[Parent(ns, i)].wbs, ns[i].wbs)}

_validate_wbs_hierarchy(ns) ==
    IF HierarchyFaults(ns) = {} THEN NoError
    ELSE LET i == FirstOf(HierarchyFaults(ns))
         IN  ProjectValidationError("hierarchy", ns[i].wbs, ns[Parent(ns, i)].wbs,
                                    <<>>, <<>>, <<>>)

\* _validate_dependencies_exist: work packages in document order, each
\* depends_on in list order; the first reference that is unknown or is not a
\* work package raises.
\* Mutant of BadRef: the isinstance check is missing.
BadRefUnknownOnly(ns, w) == Lookup(ns, w) = 0

BadRef(ns, w) == Lookup(ns, w) = 0 \/ ns[Lookup(ns, w)].kind # "WorkPackage"

BadRefPairs(ns) ==
    UNION {{<<i, k>> : k \in {m \in 1..Len(ns[i].depends_on) :
                                  BadRef(ns, ns[i].depends_on[m])}} : i \in WpSet(ns)}

FirstPair(S) ==
    CHOOSE p \in S : \A q \in S : p[1] < q[1] \/ (p[1] = q[1] /\ p[2] <= q[2])

_validate_dependencies_exist(ns) ==
    IF BadRefPairs(ns) = {} THEN NoError
    ELSE LET p == FirstPair(BadRefPairs(ns))
             w == ns[p[1]].depends_on[p[2]]
         IN  ProjectValidationError(
                 IF Lookup(ns, w) = 0 THEN "unknown" ELSE "non-workpackage",
                 ns[p[1]].wbs, w, <<>>, <<>>, <<>>)

----------------------------------------------------------------------------
\* The dependency graph over work packages, keyed by wbs.

WpIds(ns) == {ns[i].wbs : i \in WpSet(ns)}

\* {wp.wbs: wp for wp in work_packages}: a later work package replaces an
\* earlier one registered under the same wbs.
WpLookup(ns, w) ==
    LET hits == {i \in WpSet(ns) : ns[i].wbs = w}
    IN  CHOOSE i \in hits : \A k \in hits : k <= i

\* dependencies = {wp.wbs: list(wp.depends_on) for wp in work_packages}
Dependencies(ns) == [w \in WpIds(ns) |-> ns[WpLookup(ns, w)].depends_on]

\* order = [wp.wbs for wp in work_packages]
RECURSIVE WbsOf(_, _)
WbsOf(ns, idx) ==
    IF idx = <<>> THEN <<>> ELSE <<ns[Head(idx)].wbs>> \o WbsOf(ns, Tail(idx))

\* dependencies.get(node_wbs, [])
DepsGet(deps, w) == IF w \in DOMAIN deps THEN deps[w] ELSE <<>>

\* Every wbs the search can meet: the keys of dependencies and the entries of
\* its lists (state.get(...) is None, here "none", for one not met yet).
Mentioned(deps) ==
    DOMAIN deps \cup UNION {{deps[w][k] : k \in 1..Len(deps[w])} : w \in DOMAIN deps}

\* _find_cycle.dfs: depth-first search with the active stack; st carries
\* state (wbs -> "none" | "visiting" | "done"), stack, positions (wbs -> index
\* in the stack, -1 when absent) and found (the cycle path, <<>> while none).
RECURSIVE Dfs(_, _, _)
RECURSIVE DfsDeps(_, _, _, _)
Dfs(deps, node_wbs, st) ==
    LET st1 == [st EXCEPT !.state[node_wbs] = "visiting",
                          !.positions[node_wbs] = Len(st.stack),
                          !.stack = Append(st.stack, node_wbs)]
        r == DfsDeps(deps, node_wbs, 1, st1)
    IN  IF r.found # <<>> THEN r
        ELSE [r EXCEPT !.stack = SubSeq(r.stack, 1, Len(r.stack) - 1),
                       !.positions[node_wbs] = -1,
                       !.state[node_wbs] = "done"]

\* Mutant of DfsDeps: the reported path is the whole active stack.
DfsDepsWholeStack(deps, node_wbs, k, st) ==
    IF k > Len(DepsGet(deps, node_wbs)) THEN st
    ELSE LET dep_wbs == DepsGet(deps, node_wbs)[k]
             dep_state == st.state[dep_wbs]
         IN  IF dep_state = "visiting"
             THEN [st EXCEPT !.found = st.stack \o <<dep_wbs>>]
             ELSE IF dep_state = "none"
             THEN LET r == Dfs(deps, dep_wbs, st)
                  IN  IF r.found # <<>> THEN r ELSE DfsDeps(deps, node_wbs, k + 1, r)
             ELSE DfsDeps(deps, node_wbs, k + 1, st)

DfsDeps(deps, node_wbs, k, st) ==
    IF k > Len(DepsGet(deps, node_wbs)) THEN st
    ELSE LET dep_wbs == DepsGet(deps, node_wbs)[k]
             dep_state == st.state[dep_wbs]
         IN  IF dep_state = "visiting"
             THEN [st EXCEPT !.found =
                       SubSeq(st.stack, st.positions[dep_wbs] + 1, Len(st.stack))
                       \o <<dep_wbs>>]
             ELSE IF dep_state = "none"
             THEN LET r == Dfs(deps, dep_wbs, st)
                  IN  IF r.found # <<>> THEN r ELSE DfsDeps(deps, node_wbs, k + 1, r)
             ELSE DfsDeps(deps, node_wbs, k + 1, st)

\* Mutant of FindFrom: the search starts from the first work package only.
FindFromFirstOnly(deps, order, st) ==
    IF order = <<>> THEN st ELSE Dfs(deps, Head(order), st)

\* _find_cycle's outer loop over order.
RECURSIVE FindFrom(_, _, _)
FindFrom(deps, order, st) ==
    IF order = <<>> THEN st
    ELSE IF st.state[Head(order)] = "none"
    THEN LET r == Dfs(deps, Head(order), st)
         IN  IF r.found # <<>> THEN r ELSE FindFrom(deps, Tail(order), r)
    ELSE FindFrom(deps, Tail(order), st)

\* _find_cycle: the cycle path found, <<>> for None.
_find_cycle(order, deps) ==
    FindFrom(deps, order,
             [state |-> [w \in Mentioned(deps) |-> "none"], stack |-> <<>>,
              positions |-> [w \in Mentioned(deps) |-> -1], found |-> <<>>]).found

\* _assert_no_cycles
_assert_no_cycles(ns) ==
    LET cycle == _find_cycle(WbsOf(ns, _walk_work_packages(ns)), Dependencies(ns))
    IN  IF cycle # <<>>
        THEN ProjectValidationError("cycle", <<>>, <<>>, <<>>, <<>>, cycle)
        ELSE NoError

----------------------------------------------------------------------------
\* _toposort: Kahn's algorithm, seeds and adjacency in document order.

\* The first loop: for each work package, for each of its depends_on,
\* dependents.setdefault(dep, []).append(wp.wbs) and indegree[wp.wbs] += 1
\* (dependents holds the empty list for a wbs nothing was appended to:
\* it is read with dependents.get(current, [])).
RECURSIVE TopoEdges(_, _, _, _)
\* Mutant of TopoEdges: a dependent is recorded once per predecessor, its
\* indegree counted once per entry of depends_on.
TopoEdgesOncePerPair(ns, wl, k, acc) ==
    IF wl = <<>> THEN acc
    ELSE LET wp == ns[Head(wl)]
         IN  IF k > Len(wp.depends_on) THEN TopoEdges(ns, Tail(wl), 1, acc)
             ELSE LET dep_wbs == wp.depends_on[k]
                      seen == \E m \in 1..(k - 1) : wp.depends_on[m] = dep_wbs
                  IN  TopoEdges(ns, wl, k + 1,
                          [dependents |->
                               [acc.dependents EXCEPT ![dep_wbs] =
                                    IF seen THEN @ ELSE Append(@, wp.wbs)],
                           indegree |->
                               [acc.indegree EXCEPT ![wp.wbs] = @ + 1]])

TopoEdges(ns, wl, k, acc) ==
    IF wl = <<>> THEN acc
    ELSE LET wp == ns[Head(wl)]
         IN  IF k > Len(wp.depends_on) THEN TopoEdges(ns, Tail(wl), 1, acc)
             ELSE LET dep_wbs == wp.depends_on[k]
                  IN  TopoEdges(ns, wl, k + 1,
                          [dependents |->
                               [acc.dependents EXCEPT ![dep_wbs] = Append(@, wp.wbs)],
                           indegree |->
                               [acc.indegree EXCEPT ![wp.wbs] = @ + 1]])

\* queue = deque([wp.wbs for wp in wp_list if indegree[wp.wbs] == 0])
RECURSIVE Seeds(_, _, _)
Seeds(ns, wl, indegree) ==
    IF wl = <<>> THEN <<>>
    ELSE IF indegree[ns[Head(wl)].wbs] = 0
    THEN <<ns[Head(wl)].wbs>> \o Seeds(ns, Tail(wl), indegree)
    ELSE Seeds(ns, Tail(wl), indegree)

\* The inner loop over dependents[current]: decrement, enqueue at zero.
RECURSIVE Release(_, _)
\* Mutant of Release: a released work package goes to the front of the queue.
ReleaseToFront(children, q) ==
    IF children = <<>> THEN q
    ELSE LET child == Head(children)
             indegree == [q.indegree EXCEPT ![child] = @ - 1]
         IN  Release(Tail(children),
                     [queue |-> IF indegree[child] = 0
                                THEN <<child>> \o q.queue ELSE q.queue,
                      indegree |-> indegree])

Release(children, q) ==
    IF children = <<>> THEN q
    ELSE LET child == Head(children)
             indegree == [q.indegree EXCEPT ![child] = @ - 1]
         IN  Release(Tail(children),
                     [queue |-> IF indegree[child] = 0
                                THEN Append(q.queue, child) ELSE q.queue,
                      indegree |-> indegree])

\* The while loop: popleft, append to the result, release the dependents.
RECURSIVE Kahn(_, _, _)
Kahn(dependents, q, result_wbs) ==
    IF q.queue = <<>> THEN result_wbs
    ELSE LET current == Head(q.queue)
         IN  Kahn(dependents,
                  Release(dependents[current],
                          [queue |-> Tail(q.queue), indegree |-> q.indegree]),
                  Append(result_wbs, current))

TopoResult(ns) ==
    LET wp_list == _walk_work_packages(ns)
        e == TopoEdges(ns, wp_list, 1,
                       [dependents |-> [w \in Mentioned(Dependencies(ns)) |-> <<>>],
                        indegree |-> [w \in WpIds(ns) |-> 0]])
    IN  Kahn(e.dependents,
             [queue |-> Seeds(ns, wp_list, e.indegree), indegree |-> e.indegree],
             <<>>)

RECURSIVE WpsOf(_, _)
WpsOf(ns, ws) ==
    IF ws = <<>> THEN <<>> ELSE <<WpLookup(ns, Head(ws))>> \o WpsOf(ns, Tail(ws))

\* _toposort: the error of the length check, and the order returned.
ToposortError(ns) ==
    IF Len(TopoResult(ns)) # Len(_walk_work_packages(ns))
    THEN ProjectValidationError("toposort", <<>>, <<>>, <<>>, <<>>, <<>>)
    ELSE NoError

_toposort(ns) == WpsOf(ns, TopoResult(ns))

----------------------------------------------------------------------------
\* _schedule_work_packages: one iteration of its loop, for the work package
\* at position i of the plan.

NonPositive(duration_days) == duration_days <= 0

\* The finish dates of wp's depends_on, in list order.
DepFinishes(ns, i) ==
    [k \in 1..Len(ns[i].depends_on) |->
        finish_date(ns[WpLookup(ns, ns[i].depends_on[k])])]

\* Mutant of FirstUnresolved: the last dependency whose finish is None.
LastUnresolved(fs) ==
    LET bad == {k \in 1..Len(fs) : fs[k] = None}
    IN  IF bad = {} THEN 0 ELSE CHOOSE k \in bad : \A j \in bad : j <= k

\* Mutant of FinishMissing: a predecessor without a finish is let through.
FinishMissingNever(finish) == FALSE

\* if finish is None
FinishMissing(finish) == finish = None

\* The first dependency whose finish is None (0 if every one is resolved).
FirstUnresolved(fs) ==
    LET bad == {k \in 1..Len(fs) : FinishMissing(fs[k])}
    IN  IF bad = {} THEN 0 ELSE FirstOf(bad)

\* Mutant of LatestIndex: the last of the largest (max with ties resolved to
\* the last element).
LatestIndexLastTie(fs) ==
    CHOOSE k \in 1..Len(fs) :
        /\ \A j \in 1..Len(fs) : fs[j] <= fs[k]
        /\ \A j \in (k + 1)..Len(fs) : fs[j] < fs[k]

\* Mutant of LatestIndex: min instead of max.
LatestIndexMin(fs) ==
    CHOOSE k \in 1..Len(fs) :
        /\ \A j \in 1..Len(fs) : fs[k] <= fs[j]
        /\ \A j \in 1..(k - 1) : fs[k] < fs[j]

\* max(dep_finishes, key=lambda pair: pair[1]): the first of the largest.
LatestIndex(fs) ==
    CHOOSE k \in 1..Len(fs) :
        /\ \A j \in 1..Len(fs) : fs[j] <= fs[k]
        /\ \A j \in 1..(k - 1) : fs[j] < fs[k]

\* Mutant of Precedes: a start on the latest finish day is rejected too.
PrecedesOrMeets(start_date, latest_finish) == start_date <= latest_finish

\* Mutant of InferredStart: the day after the latest finish.
InferredStartNextDay(latest_finish) == latest_finish + 1

\* wp.start_date = latest_finish
InferredStart(latest_finish) == latest_finish

\* Mutant of StartUnset: the start is written whether or not one was given.
StartUnsetAlways(start_date) == TRUE

\* if wp.start_date is None
StartUnset(start_date) == start_date = None

\* elif wp.start_date < latest_finish
Precedes(start_date, latest_finish) == start_date < latest_finish

\* The exception the iteration raises (NoError if none).
StepError(ns, i) ==
    LET wp == ns[i]
        fs == DepFinishes(ns, i)
        latest == LatestIndex(fs)
    IN  IF NonPositive(wp.duration_days)
        THEN ProjectValidationError("duration", wp.wbs, <<>>, <<>>,
                                    <<wp.duration_days>>, <<>>)
        ELSE IF wp.depends_on = <<>> THEN NoError
        ELSE IF FirstUnresolved(fs) # 0
        THEN SchedulingError("no-start", wp.wbs,
                             wp.depends_on[FirstUnresolved(fs)], <<>>)
        ELSE IF wp.start_date # None /\ Precedes(wp.start_date, fs[latest])
        THEN SchedulingError("precedes", wp.wbs, wp.depends_on[latest],
                             <<wp.start_date, fs[latest]>>)
        ELSE NoError

\* The plan after the iteration: only an unset start of a work package with
\* dependencies is written, and only when nothing is raised.
StepPlan(ns, i) ==
    LET wp == ns[i]
        fs == DepFinishes(ns, i)
    IN  IF /\ StepError(ns, i) = NoError /\ wp.depends_on # <<>>
               /\ StartUnset(wp.start_date)
        THEN [ns EXCEPT ![i].start_date = InferredStart(fs[LatestIndex(fs)])]
        ELSE ns

----------------------------------------------------------------------------
\* Spans (project_models.py) and compute_group_spans.

MinOf(S) == CHOOSE x \in S : \A y \in S : x <= y
MaxOf(S) == CHOOSE x \in S : \A y \in S : y <= x

\* span_start of WorkPackage, Milestone, Task and Phase.
RECURSIVE span_start(_, _)
span_start(ns, i) ==
    IF ns[i].kind = "WorkPackage" THEN ns[i].start_date
    ELSE IF ns[i].kind = "Milestone" THEN ns[i].deadline_date
    ELSE LET candidates == {span_start(ns, c) : c \in Children(ns, i)} \ {None}
         IN  IF candidates # {} THEN MinOf(candidates) ELSE None

RECURSIVE span_finish(_, _)
\* Mutant of span_finish: the earliest finish of the children, not the latest.
span_finish_min(ns, i) ==
    IF ns[i].kind = "WorkPackage" THEN finish_date(ns[i])
    ELSE IF ns[i].kind = "Milestone" THEN ns[i].deadline_date
    ELSE LET candidates == {span_finish(ns, c) : c \in Children(ns, i)} \ {None}
         IN  IF candidates # {} THEN MinOf(candidates) ELSE None

\* span_finish of WorkPackage, Milestone, Task and Phase.
span_finish(ns, i) ==
    IF ns[i].kind = "WorkPackage" THEN finish_date(ns[i])
    ELSE IF ns[i].kind = "Milestone" THEN ns[i].deadline_date
    ELSE LET candidates == {span_finish(ns, c) : c \in Children(ns, i)} \ {None}
         IN  IF candidates # {} THEN MaxOf(candidates) ELSE None

ContainerIds(ns) == {ns[i].wbs : i \in {j \in 1..Len(ns) : IsContainer(ns[j])}}

\* spans[wbs] = (span_start, span_finish) for every task and phase (their wbs
\* are distinct when schedule_project gets here).
compute_group_spans(ns) ==
    [w \in ContainerIds(ns) |->
        LET hits == {j \in 1..Len(ns) : IsContainer(ns[j]) /\ ns[j].wbs = w}
            i == CHOOSE j \in hits : \A k \in hits : k <= j
        IN  <<span_start(ns, i), span_finish(ns, i)>>]

----------------------------------------------------------------------------
\* Construction of the plan by the caller (the dataclass constructors), in
\* document order, then the dependency lists.

\* The wbs a node appended at this depth gets when it follows the hierarchy:
\* the parent's wbs and the rank among its siblings (phases count from 0).
NewParent(ns, depth) ==
    LET cands == {j \in 1..Len(ns) : ns[j].depth = depth - 1}
    IN  IF cands = {} THEN 0 ELSE CHOOSE j \in cands : \A k \in cands : k <= j

CanonicalId(ns, depth) ==
    IF depth = 0
    THEN <<Cardinality({j \in 1..Len(ns) : ns[j].depth = 0})>>
    ELSE ns[NewParent(ns, depth)].wbs
         \o <<Cardinality(Children(ns, NewParent(ns, depth))) + 1>>

\* A node can be appended at this depth: phases at depth 0, items under the
\* last open phase or task.
CanAppend(ns, depth) ==
    /\ Len(ns) < MaxNodes
    /\ IF depth = 0 THEN TRUE
       ELSE /\ Len(ns) > 0
            /\ depth <= ns[Len(ns)].depth + 1
            /\ IsContainer(ns[NewParent(ns, depth)])

\* Nodes whose wbs is not the one the hierarchy gives them.
OddIds(ns) ==
    {i \in 1..Len(ns) :
        ns[i].wbs # CanonicalId(SubSeq(ns, 1, i - 1), ns[i].depth)}

IdChoices(ns, depth) ==
    {CanonicalId(ns, depth)}
    \cup (IF Cardinality(OddIds(ns)) < MaxOddIds
          THEN {ns[j].wbs : j \in 1..Len(ns)}
               \cup (IF depth > 0 THEN {AlienId} ELSE {})
          ELSE {})

NoEdges(ns) == \A i \in 1..Len(ns) : ns[i].depends_on = <<>>

\* The four structural checks of schedule_project pass.
Valid(ns) ==
    /\ _validate_unique_wbs(ns) = NoError
    /\ _validate_wbs_hierarchy(ns) = NoError
    /\ _validate_dependencies_exist(ns) = NoError
    /\ _assert_no_cycles(ns) = NoError

\* The plans generated: every plan within the bounds that passes the
\* structural checks, with any durations and start dates; and every plan
\* within the bounds, valid or not, whose work packages last one day and have
\* no start date (the structural checks read no date and no duration).
PlainDates(ns) ==
    \A i \in WpSet(ns) : ns[i].duration_days = 1 /\ ns[i].start_date = None

Generated(ns) == Valid(ns) \/ PlainDates(ns)

RECURSIVE EdgeCount(_, _)
EdgeCount(ns, i) ==
    IF i > Len(ns) THEN 0 ELSE Len(ns[i].depends_on) + EdgeCount(ns, i + 1)

Depths == 1..MaxNodes

AddPhase ==
    /\ pc = "build" /\ NoEdges(nodes) /\ CanAppend(nodes, 0)
    /\ \E wbs \in IdChoices(nodes, 0) : nodes' = Append(nodes, Phase(wbs, 0))
    /\ Generated(nodes')
    /\ UNCHANGED <<pc, entry, error, topo_order, cursor, spans, route, cli, calls>>

AddTask ==
    /\ pc = "build" /\ NoEdges(nodes)
    /\ \E depth \in Depths :
          /\ CanAppend(nodes, depth)
          /\ \E wbs \in IdChoices(nodes, depth) :
                nodes' = Append(nodes, Task(wbs, depth))
    /\ Generated(nodes')
    /\ UNCHANGED <<pc, entry, error, topo_order, cursor, spans, route, cli, calls>>

AddWorkPackage ==
    /\ pc = "build" /\ NoEdges(nodes)
    /\ \E depth \in Depths :
          /\ CanAppend(nodes, depth)
          /\ \E wbs \in IdChoices(nodes, depth), d \in Durations, s \in OptDates :
                nodes' = Append(nodes, WorkPackage(wbs, depth, d, s))
    /\ Generated(nodes')
    /\ UNCHANGED <<pc, entry, error, topo_order, cursor, spans, route, cli, calls>>

AddMilestone ==
    /\ pc = "build" /\ NoEdges(nodes)
    /\ \E depth \in Depths :
          /\ CanAppend(nodes, depth)
          /\ \E wbs \in IdChoices(nodes, depth), d \in Dates :
                nodes' = Append(nodes, Milestone(wbs, depth, d))
    /\ Generated(nodes')
    /\ UNCHANGED <<pc, entry, error, topo_order, cursor, spans, route, cli, calls>>

\* wp.depends_on.append(target): any wbs of the plan, or one it does not hold.
AddDependency ==
    /\ pc = "build" /\ EdgeCount(nodes, 1) < MaxDepEdges
    /\ \E i \in WpSet(nodes), target \in {nodes[j].wbs : j \in 1..Len(nodes)}
                                          \cup {MissingId} :
          nodes' = [nodes EXCEPT ![i].depends_on = Append(@, target)]
    /\ Generated(nodes')
    /\ UNCHANGED <<pc, entry, error, topo_order, cursor, spans, route, cli, calls>>

----------------------------------------------------------------------------
\* schedule_project, one action per step of its body.

Raise(e) ==
    /\ pc' = "raised"
    /\ error' = e

\* The call: schedule_project(project).
Call ==
    /\ pc = "build"
    /\ pc' = "validate_unique_wbs"
    /\ entry' = nodes
    /\ calls' = calls + 1
    /\ UNCHANGED <<nodes, error, topo_order, cursor, spans, route, cli>>

ValidateUniqueWbs ==
    /\ pc = "validate_unique_wbs"
    /\ IF _validate_unique_wbs(nodes) # NoError
       THEN Raise(_validate_unique_wbs(nodes))
       ELSE pc' = "validate_wbs_hierarchy" /\ UNCHANGED error
    /\ UNCHANGED <<nodes, entry, topo_order, cursor, spans, route, cli, calls>>

ValidateWbsHierarchy ==
    /\ pc = "validate_wbs_hierarchy"
    /\ IF _validate_wbs_hierarchy(nodes) # NoError
       THEN Raise(_validate_wbs_hierarchy(nodes))
       ELSE pc' = "validate_dependencies_exist" /\ UNCHANGED error
    /\ UNCHANGED <<nodes, entry, topo_order, cursor, spans, route, cli, calls>>

ValidateDependenciesExist ==
    /\ pc = "validate_dependencies_exist"
    /\ IF _validate_dependencies_exist(nodes) # NoError
       THEN Raise(_validate_dependencies_exist(nodes))
       ELSE pc' = "assert_no_cycles" /\ UNCHANGED error
    /\ UNCHANGED <<nodes, entry, topo_order, cursor, spans, route, cli, calls>>

AssertNoCycles ==
    /\ pc = "assert_no_cycles"
    /\ IF _assert_no_cycles(nodes) # NoError
       THEN Raise(_assert_no_cycles(nodes))
       ELSE pc' = "toposort" /\ UNCHANGED error
    /\ UNCHANGED <<nodes, entry, topo_order, cursor, spans, route, cli, calls>>

Toposort ==
    /\ pc = "toposort"
    /\ IF ToposortError(nodes) # NoError
       THEN Raise(ToposortError(nodes)) /\ UNCHANGED topo_order
       ELSE /\ pc' = "schedule_work_packages"
            /\ topo_order' = _toposort(nodes)
            /\ UNCHANGED error
    /\ UNCHANGED <<nodes, entry, cursor, spans, route, cli, calls>>

\* One iteration of the loop of _schedule_work_packages.
ScheduleWorkPackage ==
    /\ pc = "schedule_work_packages"
    /\ cursor < Len(topo_order)
    /\ LET i == topo_order[cursor + 1]
       IN  IF StepError(nodes, i) # NoError
           THEN Raise(StepError(nodes, i)) /\ UNCHANGED <<nodes, cursor>>
           ELSE /\ nodes' = StepPlan(nodes, i)
                /\ cursor' = cursor + 1
                /\ UNCHANGED <<pc, error>>
    /\ UNCHANGED <<entry, topo_order, spans, route, cli, calls>>

\* The loop is over: compute_group_spans(project); return project.
ComputeGroupSpans ==
    /\ pc = "schedule_work_packages"
    /\ cursor = Len(topo_order)
    /\ spans' = compute_group_spans(nodes)
    /\ pc' = "returned"
    /\ UNCHANGED <<nodes, entry, error, topo_order, cursor, route, cli, calls>>

\* schedule_project(project) on the plan an earlier call returned: the call
\* starts over with the plan as it is now.
CallAgain ==
    /\ pc = "returned"
    /\ calls < MaxCalls
    /\ pc' = "validate_unique_wbs"
    /\ entry' = nodes
    /\ topo_order' = <<>>
    /\ cursor' = 0
    /\ calls' = calls + 1
    /\ UNCHANGED <<nodes, error, spans, route, cli>>

----------------------------------------------------------------------------
\* The dependency router (render_gantt.py). Coordinates are integers counting
\* hundredths: x in hundredths of a day, y in hundredths of a row. A rectangle
\* is <<x_min, x_max, y_min, y_max>>, a point is <<x, y>>, a polyline is a
\* sequence of points.

GRID_DX == 35
GRID_DY == 25
GRID_CLEARANCE == 12
ROUTE_X_PAD == 35
ROUTE_CLEARANCE == 12
DETOUR_STEP_X == 50
DETOUR_MAX_STEPS == 8
DETOUR_MARGIN_X == 100
\* The 1.0 added around the bounding box of the rectangles.
GRID_MARGIN == 100
\* The lane of the fallback lies ROUTE_X_PAD * 4 right of the rightmost edge.
LANE_PADS == 4
bend_penalty == 5
row_height == 60
\* One day, one row.
Unit == 100
\* Half a day: the step of the x coordinates the rectangles are drawn from.
HalfUnit == Unit \div 2

Lower(x, y) == IF x <= y THEN x ELSE y
Higher(x, y) == IF x <= y THEN y ELSE x
Abs(x) == IF x < 0 THEN -x ELSE x
Ceil(n, d) == (n + d - 1) \div d
Last(s) == s[Len(s)]

\* Inflate rectangle by cx, cy on all sides.
inflate_rect(rect, cx, cy) == <<rect[1] - cx, rect[2] + cx, rect[3] - cy, rect[4] + cy>>

\* True if an orthogonal segment touches or crosses the rectangle; a segment
\* that is not orthogonal is treated as intersecting.
segment_intersects_rect(p, q, rect) ==
    IF p[2] = q[2]
    THEN /\ rect[3] <= p[2] /\ p[2] <= rect[4]
         /\ ~(Higher(p[1], q[1]) < rect[1] \/ Lower(p[1], q[1]) > rect[2])
    ELSE IF p[1] = q[1]
    THEN /\ rect[1] <= p[1] /\ p[1] <= rect[2]
         /\ ~(Higher(p[2], q[2]) < rect[3] \/ Lower(p[2], q[2]) > rect[4])
    ELSE TRUE

polyline_intersects_rects(polyline, rects, cx, cy) ==
    /\ Len(polyline) >= 2
    /\ \E i \in 1..(Len(polyline) - 1), r \in 1..Len(rects) :
          segment_intersects_rect(polyline[i], polyline[i + 1],
                                  inflate_rect(rects[r], cx, cy))

polyline_intersects_any_rect(polyline, rects, clearance) ==
    polyline_intersects_rects(polyline, rects, clearance, clearance)

\* The anchor points: the middle of the predecessor's right edge and of the
\* successor's left edge, moved outward by ROUTE_X_PAD.
StartPoint(a_rect) == <<a_rect[2] + ROUTE_X_PAD, (a_rect[3] + a_rect[4]) \div 2>>
GoalPoint(b_rect) == <<b_rect[1] - ROUTE_X_PAD, (b_rect[3] + b_rect[4]) \div 2>>

\* The loop of choose_detour_x: up to DETOUR_MAX_STEPS + 1 candidates, each
\* DETOUR_STEP_X left of the one before, never left of global_x_min.
RECURSIVE DetourScan(_, _, _, _)
DetourScan(a_rect, b_rect, candidate, step) ==
    LET global_x_min == Lower(a_rect[1], b_rect[1]) - DETOUR_MARGIN_X
        start_y == (a_rect[3] + a_rect[4]) \div 2
        end_y == (b_rect[3] + b_rect[4]) \div 2
    IN  IF step > DETOUR_MAX_STEPS THEN candidate
        ELSE IF ~polyline_intersects_rects(<<<<candidate, start_y>>, <<candidate, end_y>>>>,
                                           <<a_rect, b_rect>>,
                                           ROUTE_CLEARANCE, ROUTE_CLEARANCE)
        THEN candidate
        ELSE DetourScan(a_rect, b_rect,
                        Higher(candidate - DETOUR_STEP_X, global_x_min), step + 1)

choose_detour_x(a_rect, b_rect) ==
    DetourScan(a_rect, b_rect, b_rect[1] - ROUTE_X_PAD, 0)

\* Three-segment pattern: right, vertical, right.
route_pattern_simple(a_rect, b_rect) ==
    LET start == StartPoint(a_rect)
        goal == GoalPoint(b_rect)
        x_lane == (start[1] + goal[1]) \div 2
    IN  <<start, <<x_lane, start[2]>>, <<x_lane, goal[2]>>, goal>>

\* Five-segment detour: right, vertical, left, vertical, right.
route_pattern_detour(a_rect, b_rect) ==
    LET start == StartPoint(a_rect)
        goal == GoalPoint(b_rect)
        x_lane == a_rect[2] + ROUTE_X_PAD * 2
        x_detour == choose_detour_x(a_rect, b_rect)
        y_mid == (start[2] + goal[2]) \div 2
    IN  <<start, <<x_lane, start[2]>>, <<x_lane, y_mid>>, <<x_detour, y_mid>>,
          <<x_detour, goal[2]>>, goal>>

\* Remove consecutive duplicate points.
RECURSIVE DedupeFrom(_, _, _)
DedupeFrom(points, i, cleaned) ==
    IF i > Len(points) THEN cleaned
    ELSE DedupeFrom(points, i + 1,
                    IF points[i] # Last(cleaned) THEN Append(cleaned, points[i])
                    ELSE cleaned)

_dedupe_points(points) ==
    IF points = <<>> THEN points ELSE DedupeFrom(points, 2, <<points[1]>>)

\* Remove collinear interior points: the interior point i is dropped when the
\* cross product of (last kept -> i) and (i -> i + 1) is zero.
RECURSIVE SimplifyFrom(_, _, _)
SimplifyFrom(points, i, simplified) ==
    IF i > Len(points) - 1 THEN Append(simplified, Last(points))
    ELSE LET p1 == Last(simplified)
             p2 == points[i]
             p3 == points[i + 1]
             dx1 == p2[1] - p1[1]
             dy1 == p2[2] - p1[2]
             dx2 == p3[1] - p2[1]
             dy2 == p3[2] - p2[2]
         IN  SimplifyFrom(points, i + 1,
                          IF dx1 * dy2 - dy1 * dx2 = 0 THEN simplified
                          ELSE Append(simplified, p2))

_simplify_polyline(points) ==
    IF Len(points) <= 2 THEN points ELSE SimplifyFrom(points, 2, <<points[1]>>)

\* build_obstacle_grid: the cells whose grid point lies in a rectangle
\* inflated by the clearance are blocked.
build_obstacle_grid(rects, x_min, x_max, y_min, y_max, dx, dy, clearance) ==
    LET nx == Ceil(x_max - x_min, dx) + 1
        ny == Ceil(y_max - y_min, dy) + 1
    IN  [blocked |->
             {cell \in (0..(nx - 1)) \X (0..(ny - 1)) :
                 \E r \in 1..Len(rects) :
                     LET cx == x_min + cell[1] * dx
                         cy == y_min + cell[2] * dy
                     IN  /\ rects[r][1] - clearance <= cx
                         /\ cx <= rects[r][2] + clearance
                         /\ rects[r][3] - clearance <= cy
                         /\ cy <= rects[r][4] + clearance},
         x_min |-> x_min, y_min |-> y_min, dx |-> dx, dy |-> dy,
         nx |-> nx, ny |-> ny]

MinOver(rects, k) == MinOf({rects[r][k] : r \in 1..Len(rects)})
MaxOver(rects, k) == MaxOf({rects[r][k] : r \in 1..Len(rects)})

\* The grid _route_dependency_astar builds over the bounding box of all
\* rectangles plus the margin.
RouteGrid(all_rects) ==
    build_obstacle_grid(all_rects,
                        MinOver(all_rects, 1) - GRID_MARGIN,
                        MaxOver(all_rects, 2) + GRID_MARGIN,
                        MinOver(all_rects, 3) - GRID_MARGIN,
                        MaxOver(all_rects, 4) + GRID_MARGIN,
                        GRID_DX, GRID_DY, GRID_CLEARANCE)

to_cell(grid, pt) ==
    <<(pt[1] - grid.x_min) \div grid.dx, (pt[2] - grid.y_min) \div grid.dy>>

to_world(grid, cell) ==
    <<grid.x_min + cell[1] * grid.dx, grid.y_min + cell[2] * grid.dy>>

\* grid["blocked"].discard(start_cell); grid["blocked"].discard(goal_cell)
Unblocked(blocked, start_cell, goal_cell) == blocked \ {start_cell, goal_cell}

is_blocked(grid, cell) ==
    \/ cell[1] < 0 \/ cell[2] < 0 \/ cell[1] >= grid.nx \/ cell[2] >= grid.ny
    \/ cell \in grid.blocked

heuristic(a, b) == Abs(a[1] - b[1]) + Abs(a[2] - b[2])

\* No incoming direction (the start state's None).
NoDir == <<0, 0>>

\* The four moves of astar_route, in the order the code tries them.
Moves == <<<<1, 0>>, <<-1, 0>>, <<0, 1>>, <<0, -1>>>>

\* Mutant of FreshCosts: the costs of an earlier search are kept.
KeptCosts(start_state, left) == (start_state :> 0) @@ left

\* cost_so_far = {start_state: 0.0}, whatever an earlier search left.
FreshCosts(start_state, left) == (start_state :> 0)

\* The state of astar_route before its loop. A frontier entry is
\* <<priority, counter, cell, incoming_dir>>; a search state is
\* <<cell, incoming_dir>>, the start's incoming_dir being NoDir.
AstarInit(start, left) ==
    [frontier |-> {<<0, 0, start, NoDir>>},
     counter |-> 0,
     came_from |-> (<<start, NoDir>> :> <<>>),
     cost_so_far |-> FreshCosts(<<start, NoDir>>, left),
     best_goal_state |-> <<>>]

\* Mutant of Heappop: the entry pushed last.
HeappopNewest(frontier) ==
    CHOOSE e \in frontier : \A f \in frontier : f[2] <= e[2]

\* heapq.heappop: the least entry, by priority and then by counter.
Heappop(frontier) ==
    CHOOSE e \in frontier :
        \A f \in frontier : e[1] < f[1] \/ (e[1] = f[1] /\ e[2] <= f[2])

\* The loop over the neighbours of the popped state, from move k on.
RECURSIVE Expand(_, _, _, _, _, _)
Expand(s, grid, goal, current, incoming_dir, k) ==
    IF k > Len(Moves) THEN s
    ELSE LET dir_vec == Moves[k]
             nxt == <<current[1] + dir_vec[1], current[2] + dir_vec[2]>>
             step_cost == IF incoming_dir # NoDir /\ incoming_dir # dir_vec
                          THEN 1 + bend_penalty ELSE 1
             new_cost == s.cost_so_far[<<current, incoming_dir>>] + step_cost
             next_state == <<nxt, dir_vec>>
         IN  IF is_blocked(grid, nxt)
             THEN Expand(s, grid, goal, current, incoming_dir, k + 1)
             ELSE IF \/ next_state \notin DOMAIN s.cost_so_far
                     \/ new_cost < s.cost_so_far[next_state]
             THEN Expand([s EXCEPT
                             !.cost_so_far = (next_state :> new_cost) @@ @,
                             !.counter = @ + 1,
                             !.frontier = @ \cup {<<new_cost + heuristic(goal, nxt),
                                                    s.counter + 1, nxt, dir_vec>>},
                             !.came_from = (next_state :> <<current, incoming_dir>>) @@ @],
                         grid, goal, current, incoming_dir, k + 1)
             ELSE Expand(s, grid, goal, current, incoming_dir, k + 1)

\* One iteration of the while loop of astar_route.
AstarPop(s, grid, goal) ==
    LET e == Heappop(s.frontier)
        popped == [s EXCEPT !.frontier = @ \ {e}]
    IN  IF e[3] = goal
        THEN [popped EXCEPT !.best_goal_state = <<e[3], e[4]>>]
        ELSE Expand(popped, grid, goal, e[3], e[4], 1)

\* The cells from the state before cur_state back to the start.
RECURSIVE PathBack(_, _, _)
PathBack(came_from, cur_state, start_state) ==
    IF cur_state = start_state THEN <<>>
    ELSE LET prev == came_from[cur_state]
         IN  IF prev = <<>> THEN <<>>
             ELSE <<prev[1]>> \o PathBack(came_from, prev, start_state)

Reverse(s) == [i \in 1..Len(s) |-> s[Len(s) + 1 - i]]

\* What astar_route returns after its loop: the cells from start to goal, or
\* <<>> for None.
AstarPath(s, start, goal) ==
    IF s.best_goal_state = <<>> THEN <<>>
    ELSE LET path == <<goal>> \o PathBack(s.came_from, s.best_goal_state, <<start, NoDir>>)
         IN  Reverse(IF Last(path) # start THEN Append(path, start) ELSE path)

\* Mutant of GridPoints: every cell of the path is drawn at its grid point,
\* the first and the last included.
GridPointsOfCells(grid, cell_path, start, goal) ==
    _simplify_polyline(_dedupe_points(
        [i \in 1..Len(cell_path) |-> to_world(grid, cell_path[i])]))

\* points = [start] + [to_world(c) for c in cell_path[1:-1]] + [goal],
\* deduplicated and simplified.
GridPoints(grid, cell_path, start, goal) ==
    LET inner == IF Len(cell_path) <= 2 THEN <<>>
                 ELSE [i \in 1..(Len(cell_path) - 2) |-> to_world(grid, cell_path[i + 1])]
    IN  _simplify_polyline(_dedupe_points(<<start>> \o inner \o <<goal>>))

\* Fallback: lane to the right of all bars.
LaneFallback(all_rects, start, goal) ==
    LET lane_x == MaxOver(all_rects, 2) + ROUTE_X_PAD * LANE_PADS
    IN  <<start, <<lane_x, start[2]>>, <<lane_x, goal[2]>>, goal>>

\* Mutant of SimpleApplies: the simple pattern is always a candidate.
SimpleAlways(a_rect, b_rect) == TRUE

\* if bxmin >= axmax + ROUTE_CLEARANCE
SimpleApplies(a_rect, b_rect) == b_rect[1] >= a_rect[2] + ROUTE_CLEARANCE

\* attempts: the simple pattern when the successor starts at or beyond the
\* predecessor's right edge plus the clearance, then the detour pattern.
Attempts(a_rect, b_rect) ==
    (IF SimpleApplies(a_rect, b_rect)
     THEN <<route_pattern_simple(a_rect, b_rect)>> ELSE <<>>)
    \o <<route_pattern_detour(a_rect, b_rect)>>

\* The test of the loop over attempts.
Accepts(candidate, a_rect, b_rect, all_rects) ==
    /\ candidate # <<>>
    /\ candidate[1] = StartPoint(a_rect) /\ Last(candidate) = GoalPoint(b_rect)
    /\ ~polyline_intersects_any_rect(candidate, all_rects, ROUTE_CLEARANCE)

\* bar_rects[row.node_id] = (start_num, end_num, y - row_height / 2,
\* y + row_height / 2), for a one-day bar starting x0 half days in.
BarRect(x0, row) ==
    <<x0 * HalfUnit, x0 * HalfUnit + Unit,
      row * Unit - row_height \div 2, row * Unit + row_height \div 2>>

\* Two rectangles with no point in common.
Apart(p, q) == p[2] < q[1] \/ q[2] < p[1] \/ p[4] < q[3] \/ q[4] < p[3]

AstarIdle ==
    [frontier |-> {}, counter |-> 0, came_from |-> <<>>, cost_so_far |-> <<>>,
     best_goal_state |-> <<>>]

GridIdle ==
    [blocked |-> {}, x_min |-> 0, y_min |-> 0, dx |-> GRID_DX, dy |-> GRID_DY,
     nx |-> 0, ny |-> 0]

\* The router before any call, over the rectangles all_rects.
RouteIdle(all_rects) ==
    [pc |-> "idle", rects |-> all_rects, a_rect |-> <<>>, b_rect |-> <<>>,
     attempts |-> <<>>, tried |-> 0, grid |-> GridIdle,
     start_cell |-> <<>>, goal_cell |-> <<>>, astar |-> AstarIdle,
     result |-> <<>>, tier |-> "none", calls |-> 0, previous |-> <<>>]

\* route_dependency(a_rect, b_rect, bar_rects) up to the loop over attempts.
RouteDependency ==
    /\ route.pc = "idle" /\ route.rects # <<>>
    /\ \E i, j \in 1..Len(route.rects) :
          /\ i # j
          /\ route' = [route EXCEPT
                          !.pc = "attempts",
                          !.a_rect = route.rects[i], !.b_rect = route.rects[j],
                          !.attempts = Attempts(route.rects[i], route.rects[j]),
                          !.tried = 0, !.calls = 1]
    /\ UNCHANGED <<sched, cli>>

\* One iteration of the loop over attempts.
TryCandidate ==
    /\ route.pc = "attempts" /\ route.tried < Len(route.attempts)
    /\ LET candidate == route.attempts[route.tried + 1]
       IN  IF Accepts(candidate, route.a_rect, route.b_rect, route.rects)
           THEN route' = [route EXCEPT
                             !.pc = "returned",
                             !.result = _simplify_polyline(candidate),
                             !.tier = IF Len(route.attempts) = 2 /\ route.tried = 0
                                      THEN "simple" ELSE "detour"]
           ELSE route' = [route EXCEPT !.tried = @ + 1]
    /\ UNCHANGED <<sched, cli>>

\* _route_dependency_astar up to the call of astar_route, and astar_route up
\* to its loop.
AstarStart ==
    /\ route.pc = "attempts" /\ route.tried = Len(route.attempts)
    /\ LET grid == RouteGrid(route.rects)
           start_cell == to_cell(grid, StartPoint(route.a_rect))
           goal_cell == to_cell(grid, GoalPoint(route.b_rect))
       IN  route' = [route EXCEPT
                        !.pc = "astar",
                        !.grid = [grid EXCEPT
                                     !.blocked = Unblocked(@, start_cell, goal_cell)],
                        !.start_cell = start_cell, !.goal_cell = goal_cell,
                        !.astar = AstarInit(start_cell, route.astar.cost_so_far)]
    /\ UNCHANGED <<sched, cli>>

\* One iteration of the while loop of astar_route.
AstarStep ==
    /\ route.pc = "astar"
    /\ route.astar.frontier # {} /\ route.astar.best_goal_state = <<>>
    /\ route' = [route EXCEPT !.astar = AstarPop(@, route.grid, route.goal_cell)]
    /\ UNCHANGED <<sched, cli>>

\* astar_route returns; _route_dependency_astar returns the grid path or the
\* lane.
AstarFinish ==
    /\ route.pc = "astar"
    /\ route.astar.frontier = {} \/ route.astar.best_goal_state # <<>>
    /\ LET start == StartPoint(route.a_rect)
           goal == GoalPoint(route.b_rect)
           cell_path == AstarPath(route.astar, route.start_cell, route.goal_cell)
       IN  IF cell_path # <<>>
           THEN route' = [route EXCEPT
                             !.pc = "returned", !.tier = "astar",
                             !.result = GridPoints(route.grid, cell_path, start, goal)]
           ELSE route' = [route EXCEPT
                             !.pc = "returned", !.tier = "lane",
                             !.result = LaneFallback(route.rects, start, goal)]
    /\ UNCHANGED <<sched, cli>>

\* The caller routes the same pair again (a depends_on list naming the same
\* predecessor twice): route_dependency with the rectangles of the call before.
RouteAgain ==
    /\ route.pc = "returned" /\ route.calls = 1
    /\ route' = [route EXCEPT
                    !.pc = "attempts",
                    !.attempts = Attempts(route.a_rect, route.b_rect),
                    !.tried = 0, !.calls = 2, !.previous = route.result]
    /\ UNCHANGED <<sched, cli>>

----------------------------------------------------------------------------
\* __main__.py: main(argv), one action per stage of its body. The plan file
\* holds the plan `nodes`; the command line's --min-date, --max-date and
\* --view are read where main uses them.

\* main before it has done anything.
CliIdle ==
    [pc |-> "start", stages |-> <<>>, load_exc |-> "none",
     schedule_exc |-> "none", render_exc |-> "none", rows |-> <<>>,
     min_date |-> None, max_date |-> None, image |-> FALSE,
     viewer |-> "none", exit_code |-> None]

\* What is at the path given to main: no file, a file that cannot be read as
\* UTF-8 text, text that is not YAML, YAML that is not a project document, or
\* the document of the plan.
Files == {"missing", "undecodable", "malformed", "bad_schema", "plan"}

\* load_project: the class of the exception it raises, "none" when it returns
\* the Project. _require_wbs checks each item's wbs against its parent's and
\* registers it in the set of ids seen.
load_project(file, ns) ==
    CASE file = "missing" -> "FileNotFoundError"
      [] file = "undecodable" -> "UnicodeDecodeError"
      [] file = "malformed" -> "YAMLError"
      [] file = "bad_schema" -> "ProjectValidationError"
      [] OTHER -> IF DuplicateAt(ns) # {} \/ HierarchyFaults(ns) # {}
                  THEN "ProjectValidationError"
                  ELSE "none"

\* Mutant of LoadExit: a missing file is reported like a validation error.
LoadExitMissingAsInvalid(exc) ==
    IF exc \in {"YAMLError", "ProjectValidationError", "FileNotFoundError"} THEN 2 ELSE 1

\* The except clauses around load_project, in order.
LoadExit(exc) ==
    IF exc \in {"YAMLError", "ProjectValidationError"} THEN 2
    ELSE IF exc = "FileNotFoundError" THEN 1
    ELSE 1

\* The except clauses around schedule_project, in order.
ScheduleExit(exc) ==
    IF exc \in {"ProjectValidationError", "SchedulingError"} THEN 2 ELSE 1

\* The items list of node i as a list: its children in document order.
RECURSIVE ItemsFrom(_, _, _)
ItemsFrom(ns, i, j) ==
    IF j > Len(ns) THEN <<>>
    ELSE (IF Parent(ns, j) = i THEN <<j>> ELSE <<>>) \o ItemsFrom(ns, i, j + 1)

ItemsList(ns, i) == ItemsFrom(ns, i, 1)

\* The FlatRenderRow built for node i.
FlatRenderRow(ns, i, order, indent, phase_wbs) ==
    [order |-> order,
     indent |-> indent,
     node_type |-> CASE ns[i].kind = "Phase" -> "phase"
                     [] ns[i].kind = "WorkPackage" -> "bar"
                     [] ns[i].kind = "Milestone" -> "lozenge"
                     [] OTHER -> "bracket",
     node_id |-> ns[i].wbs,
     phase |-> phase_wbs,
     depends_on |-> ns[i].depends_on,
     start_date |-> CASE ns[i].kind = "WorkPackage" -> ns[i].start_date
                      [] ns[i].kind = "Task" -> span_start(ns, i)
                      [] OTHER -> None,
     finish_date |-> CASE ns[i].kind = "WorkPackage" -> finish_date(ns[i])
                       [] ns[i].kind = "Task" -> span_finish(ns, i)
                       [] OTHER -> None,
     deadline_date |-> ns[i].deadline_date]

\* Mutant of NextIndent: the children of a task keep the task's indent.
NextIndentSame(indent) == indent

\* indent=indent + 1 for the children of a task.
NextIndent(indent) == indent + 1

\* _append_item: the row of the item, then for a task those of its children;
\* acc carries rows and the order counter.
RECURSIVE _append_item(_, _, _, _, _)
RECURSIVE AppendItems(_, _, _, _, _)
_append_item(ns, i, acc, indent, phase_wbs) ==
    LET appended == [rows |-> Append(acc.rows,
                                     FlatRenderRow(ns, i, acc.order, indent, phase_wbs)),
                     order |-> acc.order + 1]
    IN  IF ns[i].kind = "Task"
        THEN AppendItems(ns, ItemsList(ns, i), appended, NextIndent(indent), phase_wbs)
        ELSE appended

\* for item in items: order = _append_item(item, rows, order, indent, phase_wbs)
AppendItems(ns, items, acc, indent, phase_wbs) ==
    IF items = <<>> THEN acc
    ELSE AppendItems(ns, Tail(items),
                     _append_item(ns, Head(items), acc, indent, phase_wbs),
                     indent, phase_wbs)

\* The loop of to_render_rows over the phases: the heading row, then the
\* items at indent 1.
RECURSIVE AppendPhases(_, _, _)
AppendPhases(ns, phases, acc) ==
    IF phases = <<>> THEN acc
    ELSE LET p == Head(phases)
             headed == [rows |-> Append(acc.rows,
                                        FlatRenderRow(ns, p, acc.order, 0, ns[p].wbs)),
                        order |-> acc.order + 1]
         IN  AppendPhases(ns, Tail(phases),
                          AppendItems(ns, ItemsList(ns, p), headed, 1, ns[p].wbs))

\* to_render_rows: the rows of the plan.
to_render_rows(ns) ==
    AppendPhases(ns, ItemsList(ns, 0), [rows |-> <<>>, order |-> 0]).rows

\* _resolve_date_window: the message of the ValueError it raises, "none" when
\* it returns a window.
_resolve_date_window(rows, min_date, max_date) ==
    LET dates == ({rows[i].start_date : i \in 1..Len(rows)}
                  \cup {rows[i].deadline_date : i \in 1..Len(rows)}) \ {None}
        finishes == {rows[i].finish_date : i \in 1..Len(rows)} \ {None}
    IN  IF dates = {} /\ min_date = None THEN "Cannot infer min_date"
        ELSE IF finishes \cup dates = {} /\ max_date = None THEN "Cannot infer max_date"
        ELSE "none"

\* render_gantt: the exception it raises, "none" when it saves the figure.
\* drawing = "fails" stands for an exception out of the plotting library or
\* out of writing the file.
render_gantt(rows, min_date, max_date, drawing) ==
    IF rows = <<>> THEN "rows must not be empty"
    ELSE IF _resolve_date_window(rows, min_date, max_date) # "none"
         THEN _resolve_date_window(rows, min_date, max_date)
    ELSE IF drawing = "fails" THEN "drawing failed"
    ELSE "none"

Exit(c, code) == [c EXCEPT !.pc = "exit", !.exit_code = code]

\* try: project = load_project(path) except ...: return 2 / 1
MainLoad ==
    /\ cli.pc = "start" /\ pc = "build"
    /\ \E file \in Files :
          LET exc == load_project(file, nodes)
              c == [cli EXCEPT !.stages = Append(@, "load"), !.load_exc = exc]
          IN  cli' = IF exc = "none" THEN [c EXCEPT !.pc = "schedule"]
                     ELSE Exit(c, LoadExit(exc))
    /\ UNCHANGED <<sched, route>>

\* schedule_project(project) is entered.
MainSchedule ==
    /\ cli.pc = "schedule"
    /\ Call

\* An exception that is neither a ProjectValidationError nor a
\* SchedulingError leaves schedule_project: dfs calls itself once per
\* dependency followed, and a chain of dependencies longer than the
\* interpreter's recursion limit ends in a RecursionError. The dependency of
\* the plan stands for such a chain.
MainScheduleAborts ==
    /\ cli.pc = "schedule" /\ pc = "assert_no_cycles"
    /\ \E i \in WpSet(nodes) : nodes[i].depends_on # <<>>
    /\ Raise([NoError EXCEPT !.type = "RecursionError", !.reason = "dfs"])
    /\ UNCHANGED <<nodes, entry, topo_order, cursor, spans, route, cli, calls>>

\* schedule_project has raised: except ...: return 2 / 1
MainScheduleFailed ==
    /\ cli.pc = "schedule" /\ pc = "raised"
    /\ cli' = Exit([cli EXCEPT !.stages = Append(@, "schedule"),
                               !.schedule_exc = error.type],
                   ScheduleExit(error.type))
    /\ UNCHANGED <<sched, route>>

\* schedule_project has returned: rows = to_render_rows(project)
MainFlatten ==
    /\ cli.pc = "schedule" /\ pc = "returned"
    /\ cli' = [cli EXCEPT !.pc = "render",
                          !.stages = @ \o <<"schedule", "flatten">>,
                          !.rows = to_render_rows(nodes)]
    /\ UNCHANGED <<sched, route>>

\* try: render_gantt(rows, ..., min_date, max_date) except Exception: return 1
\* and, without --view, return 0
MainRender ==
    /\ cli.pc = "render"
    /\ \E min_date \in OptDates, max_date \in OptDates,
          drawing \in {"works", "fails"}, view \in BOOLEAN :
          LET exc == render_gantt(cli.rows, min_date, max_date, drawing)
              c == [cli EXCEPT !.stages = Append(@, "render"),
                               !.min_date = min_date, !.max_date = max_date,
                               !.render_exc = exc, !.image = (exc = "none")]
          IN  cli' = IF exc # "none" THEN Exit(c, 1)
                     ELSE IF view THEN [c EXCEPT !.pc = "view"]
                     ELSE Exit(c, 0)
    /\ UNCHANGED <<sched, route>>

\* if args.view: try: webbrowser.open(...) except Exception: pass; return 0
MainView ==
    /\ cli.pc = "view"
    /\ \E outcome \in {"opened", "failed"} :
          cli' = Exit([cli EXCEPT !.stages = Append(@, "view"),
                                  !.viewer = outcome], 0)
    /\ UNCHANGED <<sched, route>>

----------------------------------------------------------------------------
\* render_gantt's loop over the rows and _draw_dependencies, on the rows of
\* the scheduled plan. date2num of day d is d * Unit, row idx lies at
\* y = idx * Unit.

\* if row.node_type == "bar" and row.start_date and row.finish_date
IsDrawnBar(row) ==
    row.node_type = "bar" /\ row.start_date # None /\ row.finish_date # None

\* Mutant of RowRect: the bar ends at the start of its finish day.
RowRectToFinish(row) ==
    <<row.start_date * Unit, row.finish_date * Unit,
      row.order * Unit - row_height \div 2, row.order * Unit + row_height \div 2>>

\* bar_rects[row.node_id] = (start_num, end_num, y - row_height / 2,
\* y + row_height / 2), end_num being date2num(finish_date + 1 day).
RowRect(row) ==
    <<row.start_date * Unit, (row.finish_date + 1) * Unit,
      row.order * Unit - row_height \div 2, row.order * Unit + row_height \div 2>>

\* list(bar_rects.values()): the rectangles of the bars in row order.
RECURSIVE BarRectsFrom(_, _)
BarRectsFrom(rows, k) ==
    IF k > Len(rows) THEN <<>>
    ELSE (IF IsDrawnBar(rows[k]) THEN <<RowRect(rows[k])>> ELSE <<>>)
         \o BarRectsFrom(rows, k + 1)

\* positions.get(id) / bar_rects.get(id): the row drawn as a bar under the
\* id, 0 when there is none.
BarRow(rows, id) ==
    LET hits == {k \in 1..Len(rows) : IsDrawnBar(rows[k]) /\ rows[k].node_id = id}
    IN  IF hits = {} THEN 0 ELSE CHOOSE k \in hits : \A h \in hits : h <= k

\* The loop of render_gantt over the rows: the bars are drawn and their
\* rectangles collected.
DrawBars ==
    /\ pc = "returned"
    /\ route.pc = "idle" /\ route.rects = <<>>
    /\ BarRectsFrom(to_render_rows(nodes), 1) # <<>>
    /\ route' = RouteIdle(BarRectsFrom(to_render_rows(nodes), 1))
    /\ UNCHANGED <<sched, cli>>

\* One iteration of the loops of _draw_dependencies: route_dependency for a
\* bar row and one entry of its depends_on, up to the loop over attempts.
DrawDependency ==
    /\ pc = "returned"
    /\ route.pc \in {"idle", "returned"} /\ route.rects # <<>>
    /\ LET rows == to_render_rows(nodes)
       IN  \E k \in 1..Len(rows) :
             /\ IsDrawnBar(rows[k])
             /\ \E m \in 1..Len(rows[k].depends_on) :
                   LET dep == BarRow(rows, rows[k].depends_on[m])
                   IN  /\ dep # 0
                       /\ route' = [RouteIdle(route.rects) EXCEPT
                                       !.pc = "attempts",
                                       !.a_rect = RowRect(rows[dep]),
                                       !.b_rect = RowRect(rows[BarRow(rows, rows[k].node_id)]),
                                       !.attempts = Attempts(RowRect(rows[dep]),
                                                             RowRect(rows[BarRow(rows, rows[k].node_id)])),
                                       !.calls = 1]
    /\ UNCHANGED <<sched, cli>>

----------------------------------------------------------------------------

Init ==
    /\ nodes = <<>>
    /\ pc = "build"
    /\ entry = <<>>
    /\ error = NoError
    /\ topo_order = <<>>
    /\ cursor = 0
    /\ spans = <<>>
    /\ route = RouteIdle(<<>>)
    /\ cli = CliIdle
    /\ calls = 0

Next ==
    \/ AddPhase
    \/ AddTask
    \/ AddWorkPackage
    \/ AddMilestone
    \/ AddDependency
    \/ Call
    \/ ValidateUniqueWbs
    \/ ValidateWbsHierarchy
    \/ ValidateDependenciesExist
    \/ AssertNoCycles
    \/ Toposort
    \/ ScheduleWorkPackage
    \/ ComputeGroupSpans

Spec == Init /\ [][Next]_vars

\* The same plans, each scheduled up to MaxCalls times.
NextAgain ==
    \/ AddPhase
    \/ AddTask
    \/ AddWorkPackage
    \/ AddMilestone
    \/ AddDependency
    \/ Call
    \/ ValidateUniqueWbs
    \/ ValidateWbsHierarchy
    \/ ValidateDependenciesExist
    \/ AssertNoCycles
    \/ Toposort
    \/ ScheduleWorkPackage
    \/ ComputeGroupSpans
    \/ CallAgain

SpecAgain == Init /\ [][NextAgain]_vars

----------------------------------------------------------------------------
\* Dependency graphs: schedule_project called on a plan of one phase "0" and
\* up to GraphWps one-day work packages without start dates, "0.1", "0.2",
\* ..., with every choice of depends_on lists over their wbs (references
\* forward and backward, to itself, repeated), and with at most one of them
\* under a wbs "1.k" that is not below its phase.

GraphId(k, odd) == IF k = odd THEN <<1, k>> ELSE <<0, k>>

SeqsUpTo(S, n) == UNION {[1..l -> S] : l \in 0..n}

GraphPlan(n, odd, deps) ==
    <<Phase(<<0>>, 0)>> \o
    [k \in 1..n |->
        [WorkPackage(GraphId(k, odd), 1, 1, None) EXCEPT
            !.depends_on = [m \in 1..Len(deps[k]) |-> GraphId(deps[k][m], odd)]]]

InitGraph ==
    /\ \E n \in 1..GraphWps :
          \E odd \in 0..n, deps \in [1..n -> SeqsUpTo(1..n, GraphDeps)] :
              nodes = GraphPlan(n, odd, deps)
    /\ pc = "build"
    /\ entry = <<>>
    /\ error = NoError
    /\ topo_order = <<>>
    /\ cursor = 0
    /\ spans = <<>>
    /\ route = RouteIdle(<<>>)
    /\ cli = CliIdle
    /\ calls = 0

NextRun ==
    \/ Call
    \/ ValidateUniqueWbs
    \/ ValidateWbsHierarchy
    \/ ValidateDependenciesExist
    \/ AssertNoCycles
    \/ Toposort
    \/ ScheduleWorkPackage
    \/ ComputeGroupSpans

SpecGraph == InitGraph /\ [][NextRun]_vars

----------------------------------------------------------------------------
\* Layouts: the router called on two of up to MaxRects rectangles that have
\* no point in common, and called once more on the same pair.

\* A one-day bar that starts 2 * ROUTE_X_PAD after the end of the bar of the
\* first day: routed from that bar to this one, the two anchors coincide.
NearBar(row) ==
    <<Unit + 2 * ROUTE_X_PAD, 2 * Unit + 2 * ROUTE_X_PAD,
      row * Unit - row_height \div 2, row * Unit + row_height \div 2>>

\* A rectangle 0.3 days wide that stands in the gap between those two.
Post(row) ==
    <<Unit + 20, Unit + 50, row * Unit - row_height \div 2, row * Unit + row_height \div 2>>

Bars ==
    {BarRect(x0, row) : x0 \in 0..MaxHalfDays, row \in 0..MaxRow}
    \cup {NearBar(row) : row \in 0..MaxRow} \cup {Post(row) : row \in 0..MaxRow}

\* The layouts, each listed once (in the order of their rows, then of their
\* left edges).
Before(p, q) == p[3] < q[3] \/ (p[3] = q[3] /\ p[1] < q[1])

Layouts ==
    {rs \in UNION {[1..n -> Bars] : n \in 2..MaxRects} :
        \A i, j \in 1..Len(rs) : i < j => Apart(rs[i], rs[j]) /\ Before(rs[i], rs[j])}

InitRoute ==
    /\ nodes = <<>>
    /\ pc = "build"
    /\ entry = <<>>
    /\ error = NoError
    /\ topo_order = <<>>
    /\ cursor = 0
    /\ spans = <<>>
    /\ \E rs \in Layouts : route = RouteIdle(rs)
    /\ cli = CliIdle
    /\ calls = 0

NextRoute ==
    \/ RouteDependency
    \/ TryCandidate
    \/ AstarStart
    \/ AstarStep
    \/ AstarFinish
    \/ RouteAgain

SpecRoute == InitRoute /\ [][NextRoute]_vars

----------------------------------------------------------------------------
\* The command line: main run on the file of a plan of one phase "0", or of
\* none or two phases, with up to two items in the phase: a group, a
\* milestone or a work package first, a work package second.

CliFirstItems ==
    {Task(<<0, 1>>, 1)}
    \cup {Milestone(<<0, 1>>, 1, d) : d \in Dates}
    \cup {WorkPackage(w, 1, d, s) : w \in {<<0, 1>>, <<1, 1>>}, d \in Durations, s \in OptDates}

CliSecondItems ==
    {[WorkPackage(w, 1, d, s) EXCEPT !.depends_on = deps] :
        w \in {<<0, 1>>, <<0, 2>>}, d \in Durations, s \in OptDates,
        deps \in {<<>>, <<<<0, 1>>>>, <<<<0, 2>>>>, <<MissingId>>}}

\* Plans with a task that has children, and with items in two phases.
CliNested ==
    LET inner == {WorkPackage(<<0, 1, 1>>, 2, 1, s) : s \in OptDates}
                 \cup {Milestone(<<0, 1, 1>>, 2, d) : d \in Dates}
                 \cup {Task(<<0, 1, 1>>, 2)}
        after == {WorkPackage(<<0, 2>>, 1, 1, s) : s \in OptDates}
    IN  {<<Phase(<<0>>, 0), Task(<<0, 1>>, 1), x>> : x \in inner}
        \cup {<<Phase(<<0>>, 0), Task(<<0, 1>>, 1), x, y>> : x \in inner, y \in after}
        \cup {<<Phase(<<0>>, 0), Task(<<0, 1>>, 1), Task(<<0, 1, 1>>, 2),
                WorkPackage(<<0, 1, 1, 1>>, 3, 1, s)>> : s \in OptDates}
        \cup {<<Phase(<<0>>, 0), WorkPackage(<<0, 1>>, 1, 1, s), Phase(<<1>>, 0),
                Milestone(<<1, 1>>, 1, d)>> : s \in OptDates, d \in Dates}

CliPlans ==
    {<<>>, <<Phase(<<0>>, 0)>>, <<Phase(<<0>>, 0), Phase(<<1>>, 0)>>}
    \cup CliNested
    \cup {<<Phase(<<0>>, 0), a>> : a \in CliFirstItems}
    \cup {<<Phase(<<0>>, 0), a, b>> : a \in CliFirstItems, b \in CliSecondItems}

InitCli ==
    /\ nodes \in CliPlans
    /\ pc = "build"
    /\ entry = <<>>
    /\ error = NoError
    /\ topo_order = <<>>
    /\ cursor = 0
    /\ spans = <<>>
    /\ route = RouteIdle(<<>>)
    /\ cli = CliIdle
    /\ calls = 0

NextCli ==
    \/ MainLoad
    \/ MainSchedule
    \/ ValidateUniqueWbs
    \/ ValidateWbsHierarchy
    \/ ValidateDependenciesExist
    \/ AssertNoCycles
    \/ Toposort
    \/ ScheduleWorkPackage
    \/ ComputeGroupSpans
    \/ MainScheduleAborts
    \/ MainScheduleFailed
    \/ MainFlatten
    \/ MainRender
    \/ MainView

SpecCli == InitCli /\ [][NextCli]_vars

----------------------------------------------------------------------------
\* Charts: a plan of one phase "0" with a work package "0.1" that starts on
\* day 1 and lasts 1 to MaxBarDays days, optionally a work package "0.2" with
\* a start date, and a work package "0.3" that depends on "0.1" (and, when
\* it is there, possibly on "0.2") with no start date or one on or after the
\* finish of "0.1"; the plan is scheduled and its dependencies are routed.

ChartMiddles ==
    {[WorkPackage(<<0, 2>>, 1, d, s) EXCEPT !.depends_on = deps] :
        d \in 1..MaxDur, s \in 1..(MaxDate + 1), deps \in {<<>>, <<<<0, 1>>>>}}

ChartPlans ==
    UNION {
        LET first == WorkPackage(<<0, 1>>, 1, days, 1)
            lasts == {[WorkPackage(<<0, 3>>, 1, d, s) EXCEPT !.depends_on = deps] :
                         d \in 1..MaxDur,
                         s \in {None} \cup (days..(days + MaxDate)),
                         deps \in {<<<<0, 1>>>>, <<<<0, 1>>, <<0, 2>>>>}}
        IN  {<<Phase(<<0>>, 0), first, b>> : b \in {l \in lasts : Len(l.depends_on) = 1}}
            \cup {<<Phase(<<0>>, 0), first, c, b>> : c \in ChartMiddles, b \in lasts}
            \cup {<<Phase(<<0>>, 0), first, b, c>> :
                       c \in ChartMiddles, b \in {l \in lasts : Len(l.depends_on) = 1}}
        : days \in 1..MaxBarDays}

InitChart ==
    /\ nodes \in ChartPlans
    /\ pc = "build"
    /\ entry = <<>>
    /\ error = NoError
    /\ topo_order = <<>>
    /\ cursor = 0
    /\ spans = <<>>
    /\ route = RouteIdle(<<>>)
    /\ cli = CliIdle
    /\ calls = 0

NextChart ==
    \/ Call
    \/ ValidateUniqueWbs
    \/ ValidateWbsHierarchy
    \/ ValidateDependenciesExist
    \/ AssertNoCycles
    \/ Toposort
    \/ ScheduleWorkPackage
    \/ ComputeGroupSpans
    \/ DrawBars
    \/ DrawDependency
    \/ TryCandidate
    \/ AstarStart
    \/ AstarStep
    \/ AstarFinish

SpecChart == InitChart /\ [][NextChart]_vars

----------------------------------------------------------------------------
\* Vocabulary of the properties.

Called == pc # "build"
Returned == pc = "returned"
Raised == pc = "raised"

\* The work package a depends_on entry names (wbs are distinct where used).
WpNamed(ns, w) == CHOOSE j \in WpSet(ns) : ns[j].wbs = w

DepsOf(ns, i) == {WpNamed(ns, ns[i].depends_on[k]) : k \in 1..Len(ns[i].depends_on)}

HasDeps(ns, i) == ns[i].depends_on # <<>>

\* finish = start + duration - 1, written out.
FinishOf(n) == n.start_date + n.duration_days - 1

\* C1: after schedule_project returns, every work package with dependencies
\* has a start date, each of its dependencies has a finish date, and its
\* start is not before the latest of those finishes.
C1_StartNotBeforeDeps ==
    Returned =>
        \A i \in WpSet(nodes) :
            HasDeps(nodes, i) =>
                /\ nodes[i].start_date # None
                /\ \A d \in DepsOf(nodes, i) :
                      /\ nodes[d].start_date # None
                      /\ nodes[i].start_date >= FinishOf(nodes[d])

\* A returned plan where a work package with no start of its own has two
\* dependencies that finish on different days.
C1_Witness ==
    /\ Returned
    /\ \E i \in WpSet(nodes) :
          /\ entry[i].start_date = None
          /\ \E d1, d2 \in DepsOf(nodes, i) :
                FinishOf(nodes[d1]) < FinishOf(nodes[d2])

\* C2: zero-gap inference: after schedule_project returns, a work package
\* that had dependencies and no start date starts exactly on the latest
\* finish day of its dependencies (finish = start + duration - 1).
C2_ZeroGap ==
    Returned =>
        \A i \in WpSet(nodes) :
            (HasDeps(nodes, i) /\ entry[i].start_date = None) =>
                nodes[i].start_date =
                    MaxOf({FinishOf(nodes[d]) : d \in DepsOf(nodes, i)})

\* The example of the tests within the date range: A starts on day 1 and
\* lasts 2 days, B depends on A and lasts 2 days; B starts on day 2 (A's
\* finish day) and finishes on day 3.
C2_Witness ==
    /\ Returned
    /\ \E a, b \in WpSet(nodes) :
          /\ entry[a].start_date = 1 /\ entry[a].duration_days = 2
          /\ entry[a].depends_on = <<>>
          /\ entry[b].start_date = None /\ entry[b].duration_days = 2
          /\ entry[b].depends_on = <<entry[a].wbs>>
          /\ nodes[b].start_date = 2 /\ FinishOf(nodes[b]) = 3

\* The loop of _schedule_work_packages raised while processing work package i.
RaisedAt(i) ==
    Raised /\ cursor < Len(topo_order) /\ topo_order[cursor + 1] = i

\* The loop processed work package i without raising.
PassedOver(i) == \E c \in 1..cursor : topo_order[c] = i

Processed(i) == RaisedAt(i) \/ PassedOver(i)

AllDepsStarted(ns, i) == \A d \in DepsOf(ns, i) : ns[d].start_date # None

LatestFinish(ns, i) == MaxOf({FinishOf(ns[d]) : d \in DepsOf(ns, i)})

\* The first entry of depends_on whose work package finishes on the latest day.
FirstLatestDep(ns, i) ==
    LET ks == {k \in 1..Len(ns[i].depends_on) :
                  FinishOf(ns[WpNamed(ns, ns[i].depends_on[k])]) = LatestFinish(ns, i)}
    IN  ns[i].depends_on[MinOf(ks)]

PrecedenceRule(i) ==
    /\ (RaisedAt(i) /\ error.type = "SchedulingError")
           <=> entry[i].start_date < LatestFinish(nodes, i)
    /\ (RaisedAt(i) /\ error.type = "SchedulingError") =>
           /\ error.at = nodes[i].wbs
           /\ error.other = FirstLatestDep(nodes, i)

\* C3 as stated: once a work package with dependencies (all of them with a
\* finish date) and an explicit start date has been processed, SchedulingError
\* was raised for it if and only if its start is strictly before the latest
\* dependency finish, and the error names the first-listed dependency that
\* finishes latest.
C3_AsStated ==
    \A i \in WpSet(nodes) :
        (/\ Processed(i) /\ HasDeps(nodes, i) /\ entry[i].start_date # None
         /\ AllDepsStarted(nodes, i))
        => PrecedenceRule(i)

\* C3 amended: the same for a work package whose duration_days is positive
\* (a non-positive duration is rejected before the dependencies are looked at).
C3_PrecedenceCheck ==
    \A i \in WpSet(nodes) :
        (/\ Processed(i) /\ HasDeps(nodes, i) /\ entry[i].start_date # None
         /\ AllDepsStarted(nodes, i) /\ nodes[i].duration_days > 0)
        => PrecedenceRule(i)

\* SchedulingError raised for a work package that starts before the finish
\* shared by its two distinct dependencies, of which the one listed first
\* comes later in the document.
C3_Witness ==
    /\ Raised /\ error.type = "SchedulingError"
    /\ \E i \in WpSet(nodes) :
          /\ RaisedAt(i) /\ entry[i].start_date # None
          /\ Len(nodes[i].depends_on) = 2
          /\ AllDepsStarted(nodes, i)
          /\ LET d1 == WpNamed(nodes, nodes[i].depends_on[1])
                 d2 == WpNamed(nodes, nodes[i].depends_on[2])
             IN  d2 < d1 /\ FinishOf(nodes[d1]) = FinishOf(nodes[d2])

UnresolvedRule(x, y) ==
    /\ RaisedAt(x)
    /\ error.type = "SchedulingError"
    /\ error.at = nodes[x].wbs
    /\ error.other = nodes[y].wbs
    /\ nodes[x].start_date = entry[x].start_date

\* C9 as stated: once X has been processed, for every dependency Y of X
\* that had no start date, SchedulingError naming X and Y was raised and X's
\* start date was not written.
C9_AsStated ==
    \A x \in WpSet(nodes) :
        Processed(x) =>
            \A k \in 1..Len(nodes[x].depends_on) :
                LET y == WpNamed(nodes, nodes[x].depends_on[k])
                IN  nodes[y].start_date = None => UnresolvedRule(x, y)

\* C9 amended: the same when X's duration_days is positive and Y is the
\* first entry of X's depends_on that has no start date.
C9_UnresolvedPredecessor ==
    \A x \in WpSet(nodes) :
        (Processed(x) /\ nodes[x].duration_days > 0) =>
            \A k \in 1..Len(nodes[x].depends_on) :
                LET y == WpNamed(nodes, nodes[x].depends_on[k])
                IN  (/\ nodes[y].start_date = None
                     /\ \A j \in 1..(k - 1) :
                           nodes[WpNamed(nodes, nodes[x].depends_on[j])].start_date # None)
                    => UnresolvedRule(x, y)

\* SchedulingError raised for X whose first dependency has a finish date and
\* whose second has no start date.
C9_Witness ==
    /\ Raised
    /\ \E x \in WpSet(nodes) :
          /\ RaisedAt(x) /\ Len(nodes[x].depends_on) = 2
          /\ nodes[WpNamed(nodes, nodes[x].depends_on[1])].start_date # None
          /\ nodes[WpNamed(nodes, nodes[x].depends_on[2])].start_date = None
          /\ error.other = nodes[x].depends_on[2]

\* C4.  The plan properties the claim speaks of, stated on the plan itself.
UniqueIds(ns) == \A i, j \in 1..Len(ns) : ns[i].wbs = ns[j].wbs => i = j

RefsResolve(ns) ==
    \A i \in WpSet(ns) : \A k \in 1..Len(ns[i].depends_on) :
        \E j \in WpSet(ns) : ns[j].wbs = ns[i].depends_on[k]

HierarchyOk(ns) ==
    \A i \in 1..Len(ns) :
        ns[i].depth > 0 => StartsWithPrefix(ns[Parent(ns, i)].wbs, ns[i].wbs)

\* The work packages u depends on directly, and those it reaches.
DirectDeps(ns, u) ==
    {v \in WpSet(ns) : \E k \in 1..Len(ns[u].depends_on) : ns[u].depends_on[k] = ns[v].wbs}

RECURSIVE Closure(_, _)
Closure(ns, S) ==
    LET T == S \cup UNION {DirectDeps(ns, u) : u \in S}
    IN  IF T = S THEN S ELSE Closure(ns, T)

OnCycle(ns, u) == u \in Closure(ns, DirectDeps(ns, u))

HasCycle(ns) == \E u \in WpSet(ns) : OnCycle(ns, u)

Finished == Returned \/ Raised

CycleError == Raised /\ error.type = "ProjectValidationError" /\ error.reason = "cycle"

InPath(w) == \E k \in 1..Len(error.path) : error.path[k] = w

Mutual(ns, a, b) == a # b /\ a \in DirectDeps(ns, b) /\ b \in DirectDeps(ns, a)

\* C4 as stated: for a plan with distinct wbs and resolvable references, the
\* call ends in the cycle validation error if and only if the depends_on
\* graph has a cycle; two work packages depending on each other are rejected
\* with a reported cycle containing both.
C4_AsStated ==
    (Finished /\ UniqueIds(entry) /\ RefsResolve(entry)) =>
        /\ CycleError <=> HasCycle(entry)
        /\ \A a, b \in WpSet(entry) :
               Mutual(entry, a, b) =>
                   CycleError /\ InPath(entry[a].wbs) /\ InPath(entry[b].wbs)

\* C4 amended: the same for a plan that also passes the WBS hierarchy check
\* (it runs before the cycle check); the reported cycle contains both
\* mutually dependent work packages when the graph has no other cycle.
C4_CycleRejected ==
    (Finished /\ UniqueIds(entry) /\ HierarchyOk(entry) /\ RefsResolve(entry)) =>
        /\ CycleError <=> HasCycle(entry)
        /\ \A a, b \in WpSet(entry) :
               Mutual(entry, a, b) =>
                   /\ CycleError
                   /\ (/\ \A u \in WpSet(entry) : OnCycle(entry, u) => u \in {a, b}
                       /\ a \notin DirectDeps(entry, a)
                       /\ b \notin DirectDeps(entry, b))
                      => InPath(entry[a].wbs) /\ InPath(entry[b].wbs)

\* The test's plan behind an unrelated work package: the first work package
\* has no dependencies, the next two depend on each other; the cycle error
\* reports both of them.
C4_Witness ==
    /\ CycleError
    /\ HierarchyOk(entry)
    /\ \E a, b \in WpSet(entry) :
          /\ Mutual(entry, a, b)
          /\ \E c \in WpSet(entry) : c < a /\ c < b /\ entry[c].depends_on = <<>>
          /\ InPath(entry[a].wbs) /\ InPath(entry[b].wbs)

\* C5.  A depends_on entry that names no node, or a node that is no work package.
BadDep(ns, w) ==
    \/ ~\E j \in 1..Len(ns) : ns[j].wbs = w
    \/ \E j \in 1..Len(ns) : ns[j].wbs = w /\ ns[j].kind # "WorkPackage"

HasBadDep(ns) ==
    \E i \in WpSet(ns) : \E k \in 1..Len(ns[i].depends_on) : BadDep(ns, ns[i].depends_on[k])

\* schedule_project got past _validate_dependencies_exist.
PastReferenceCheck ==
    \/ pc \in {"assert_no_cycles", "toposort", "schedule_work_packages", "returned"}
    \/ Raised /\ error.reason \in {"cycle", "toposort", "duration", "no-start", "precedes"}

\* C5: a call on a plan with a depends_on entry that names no node or a node
\* that is not a work package ends in a validation error, and the call gets
\* past the reference check only if every entry names a work package.
C5_BadReferenceRejected ==
    /\ (Finished /\ HasBadDep(entry)) =>
           Raised /\ error.type = "ProjectValidationError"
    /\ PastReferenceCheck => ~HasBadDep(entry)

\* The reference check itself rejects a dependency on a milestone.
C5_Witness ==
    /\ Raised /\ error.type = "ProjectValidationError"
    /\ error.reason = "non-workpackage"
    /\ \E i \in WpSet(entry), j \in 1..Len(entry) :
          /\ entry[j].kind = "Milestone"
          /\ entry[i].depends_on = <<entry[j].wbs>>
          /\ error.at = entry[i].wbs /\ error.other = entry[j].wbs

\* C6: a call on a plan in which two nodes share a wbs goes from the
\* uniqueness check straight to the duplicate validation error: no other
\* check is entered and the plan (every date) is as it was at entry.
C6_DuplicateRejectedFirst ==
    (Called /\ ~UniqueIds(entry)) =>
        /\ pc \in {"validate_unique_wbs", "raised"}
        /\ Raised => (error.type = "ProjectValidationError" /\ error.reason = "duplicate")
        /\ nodes = entry
        /\ topo_order = <<>>

\* The phase a node belongs to.
PhaseOf(ns, i) ==
    LET ps == {j \in 1..i : ns[j].depth = 0} IN CHOOSE j \in ps : \A k \in ps : k <= j

\* The duplicate error for two nodes of different types, at different
\* depths, in different phases.
C6_Witness ==
    /\ Raised /\ error.reason = "duplicate"
    /\ \E i, j \in 1..Len(entry) :
          /\ i < j /\ entry[i].wbs = entry[j].wbs
          /\ entry[i].kind # entry[j].kind
          /\ entry[i].depth > 0 /\ entry[j].depth > 0
          /\ PhaseOf(entry, i) # PhaseOf(entry, j)
          /\ error.at = entry[j].wbs
          /\ error.kinds = <<entry[i].kind, entry[j].kind>>

\* C7 as stated: whenever the call raised ProjectValidationError, every work
\* package's start_date is what it was at entry.
C7_AsStated ==
    (Raised /\ error.type = "ProjectValidationError") =>
        \A i \in 1..Len(nodes) : nodes[i].start_date = entry[i].start_date

\* C8 as stated: a call on a structurally valid plan holding a work package
\* with duration_days <= 0 ends in SchedulingError, and the error raised for
\* such a work package names it and the value.
C8_AsStated ==
    /\ (/\ Finished /\ UniqueIds(entry) /\ HierarchyOk(entry) /\ ~HasBadDep(entry)
        /\ ~HasCycle(entry)
        /\ \E i \in WpSet(entry) : entry[i].duration_days <= 0)
       => (Raised /\ error.type = "SchedulingError")
    /\ \A i \in WpSet(nodes) :
           (RaisedAt(i) /\ nodes[i].duration_days <= 0) =>
               /\ error.type = "SchedulingError"
               /\ error.at = nodes[i].wbs
               /\ error.value = <<nodes[i].duration_days>>

\* C10.  The items of a task or phase and the nodes below it, read off the
\* document order and the depths.
Below(ns, i) ==
    {j \in (i + 1)..Len(ns) : \A k \in (i + 1)..j : ns[k].depth > ns[i].depth}

ItemsOf(ns, i) == {j \in Below(ns, i) : ns[j].depth = ns[i].depth + 1}

\* The span of an item as its parent sees it: a task's from the computed
\* spans, a work package's from start and duration, a milestone's deadline.
ItemStart(ns, c) ==
    IF IsContainer(ns[c]) THEN spans[ns[c].wbs][1]
    ELSE IF ns[c].kind = "Milestone" THEN ns[c].deadline_date
    ELSE ns[c].start_date

ItemFinish(ns, c) ==
    IF IsContainer(ns[c]) THEN spans[ns[c].wbs][2]
    ELSE IF ns[c].kind = "Milestone" THEN ns[c].deadline_date
    ELSE IF ns[c].start_date = None THEN None
    ELSE FinishOf(ns[c])

IsLeast(x, S) == x \in S /\ \A y \in S : x <= y
IsGreatest(x, S) == x \in S /\ \A y \in S : y <= x

Leaves(ns, i) == {j \in Below(ns, i) : ~IsContainer(ns[j])}

\* C10: on return, the span of every task and phase is the least span start
\* and the greatest span finish of its items that have one, and None when no
\* item has one; equally, the least start and greatest finish over the work
\* packages and milestones below it, and None when none of them is resolved.
C10_SpanAggregation ==
    Returned =>
        \A i \in 1..Len(nodes) :
            IsContainer(nodes[i]) =>
                LET sp == spans[nodes[i].wbs]
                    starts == {ItemStart(nodes, c) : c \in ItemsOf(nodes, i)} \ {None}
                    finishes == {ItemFinish(nodes, c) : c \in ItemsOf(nodes, i)} \ {None}
                    lstarts == {ItemStart(nodes, c) : c \in Leaves(nodes, i)} \ {None}
                    lfinishes == {ItemFinish(nodes, c) : c \in Leaves(nodes, i)} \ {None}
                IN  /\ IF starts = {} THEN sp[1] = None ELSE IsLeast(sp[1], starts)
                    /\ IF finishes = {} THEN sp[2] = None ELSE IsGreatest(sp[2], finishes)
                    /\ IF lstarts = {} THEN sp[1] = None ELSE IsLeast(sp[1], lstarts)
                    /\ IF lfinishes = {} THEN sp[2] = None ELSE IsGreatest(sp[2], lfinishes)

\* The test's plan within the date range: a task under a phase with two work
\* packages spanning days 1..1 and 2..3; the task and the phase span 1..3.
C10_Witness ==
    /\ Returned
    /\ \E t \in 1..Len(nodes) :
          /\ nodes[t].kind = "Task" /\ nodes[t].depth = 1
          /\ \E a, b \in ItemsOf(nodes, t) :
                /\ nodes[a].kind = "WorkPackage" /\ nodes[b].kind = "WorkPackage"
                /\ nodes[a].start_date = 1 /\ FinishOf(nodes[a]) = 1
                /\ nodes[b].start_date = 2 /\ FinishOf(nodes[b]) = 3
          /\ spans[nodes[t].wbs] = <<1, 3>>
          /\ spans[nodes[Parent(nodes, t)].wbs] = <<1, 3>>

----------------------------------------------------------------------------
\* The frame of a successful call.

\* Position i of the plan is a work package that had dependencies and no
\* start date when schedule_project was called.
Inferable(i) ==
    /\ entry[i].kind = "WorkPackage" /\ HasDeps(entry, i)
    /\ entry[i].start_date = None

\* C11: after schedule_project returns, the plan has the nodes it had at the
\* call, in the same order and at the same depths, and every field of every
\* node is what it was, except the start_date of the work packages that had
\* dependencies and no start date at the call.
C11_Frame ==
    Returned =>
        /\ Len(nodes) = Len(entry)
        /\ \A i \in 1..Len(nodes) :
               /\ nodes[i] = [entry[i] EXCEPT !.start_date = nodes[i].start_date]
               /\ nodes[i].start_date # entry[i].start_date => Inferable(i)

\* A returned plan in which one start was inferred, next to a work package
\* with dependencies whose later explicit start was kept and a work package
\* without dependencies whose start is as given.
C11_Witness ==
    /\ Returned
    /\ \E i, j, k \in WpSet(nodes) :
          /\ Inferable(i) /\ nodes[i].start_date # None
          /\ HasDeps(entry, j) /\ entry[j].start_date # None
          /\ nodes[j].start_date = entry[j].start_date
          /\ nodes[j].start_date > LatestFinish(nodes, j)
          /\ ~HasDeps(entry, k) /\ nodes[k].start_date = entry[k].start_date

----------------------------------------------------------------------------
\* The router's result against the rectangles, by plane geometry.

RouteReturned == route.pc = "returned"

\* Twice the signed area of the triangle o, p, q.
Cross(o, p, q) == (p[1] - o[1]) * (q[2] - o[2]) - (p[2] - o[2]) * (q[1] - o[1])

\* r, on the line through p and q, lies between them.
Within(p, q, r) ==
    /\ Lower(p[1], q[1]) <= r[1] /\ r[1] <= Higher(p[1], q[1])
    /\ Lower(p[2], q[2]) <= r[2] /\ r[2] <= Higher(p[2], q[2])

\* The closed segments p1-p2 and p3-p4 have a point in common.
SegmentsMeet(p1, p2, p3, p4) ==
    LET d1 == Cross(p3, p4, p1)
        d2 == Cross(p3, p4, p2)
        d3 == Cross(p1, p2, p3)
        d4 == Cross(p1, p2, p4)
    IN  \/ /\ (d1 > 0 /\ d2 < 0) \/ (d1 < 0 /\ d2 > 0)
           /\ (d3 > 0 /\ d4 < 0) \/ (d3 < 0 /\ d4 > 0)
        \/ d1 = 0 /\ Within(p3, p4, p1)
        \/ d2 = 0 /\ Within(p3, p4, p2)
        \/ d3 = 0 /\ Within(p1, p2, p3)
        \/ d4 = 0 /\ Within(p1, p2, p4)

InRect(p, rect) ==
    rect[1] <= p[1] /\ p[1] <= rect[2] /\ rect[3] <= p[2] /\ p[2] <= rect[4]

\* The closed segment p-q has a point in common with the closed rectangle:
\* an end lies in it, or the segment meets one of its diagonals.
Meets(p, q, rect) ==
    \/ InRect(p, rect) \/ InRect(q, rect)
    \/ SegmentsMeet(p, q, <<rect[1], rect[3]>>, <<rect[2], rect[4]>>)
    \/ SegmentsMeet(p, q, <<rect[1], rect[4]>>, <<rect[2], rect[3]>>)

\* Some segment of the polyline touches or crosses some rectangle inflated
\* by the clearance.
Collides(polyline, rects, clearance) ==
    \E i \in 1..(Len(polyline) - 1), r \in 1..Len(rects) :
        Meets(polyline[i], polyline[i + 1], inflate_rect(rects[r], clearance, clearance))

\* C12 as stated: whatever tier a returned polyline came from, none of its
\* segments touches or crosses a rectangle of all_rects inflated by the
\* clearance.
C12_AsStated ==
    RouteReturned => ~Collides(route.result, route.rects, ROUTE_CLEARANCE)

\* The cells that orthogonal moves over unblocked cells reach from the cells
\* seen.
RECURSIVE Flood(_, _)
Flood(grid, seen) ==
    LET more == {n \in {<<c[1] + Moves[m][1], c[2] + Moves[m][2]>> :
                           c \in seen, m \in 1..Len(Moves)} :
                    n \notin seen /\ ~is_blocked(grid, n)}
    IN  IF more = {} THEN seen ELSE Flood(grid, seen \cup more)

\* The call went past both patterns, and the grid has no path of unblocked
\* cells from the start cell to the goal cell.
NoGridPath ==
    /\ route.tier \in {"astar", "lane"}
    /\ route.goal_cell \notin Flood(route.grid, {route.start_cell})

\* The polyline is the single lane, right of every rectangle.
IsLane(polyline) ==
    \E lane_x \in (MaxOver(route.rects, 2) + 1)..(MaxOver(route.rects, 2) + LANE_PADS * Unit) :
        polyline = <<StartPoint(route.a_rect),
                     <<lane_x, StartPoint(route.a_rect)[2]>>,
                     <<lane_x, GoalPoint(route.b_rect)[2]>>,
                     GoalPoint(route.b_rect)>>

\* C13 as stated: every call returns a polyline of at least two points, and
\* when no pattern was accepted and the grid has no path the result is the
\* single lane right of the rightmost rectangle.
C13_AsStated ==
    RouteReturned =>
        /\ Len(route.result) >= 2
        /\ NoGridPath => IsLane(route.result)

----------------------------------------------------------------------------
\* Tier selection.

SimpleIsCandidate == route.b_rect[1] >= route.a_rect[2] + ROUTE_CLEARANCE

\* The pattern starts and ends at the anchor points and is clear of every
\* inflated rectangle.
Acceptable(candidate) ==
    /\ candidate[1] = StartPoint(route.a_rect)
    /\ Last(candidate) = GoalPoint(route.b_rect)
    /\ ~Collides(candidate, route.rects, ROUTE_CLEARANCE)

SimpleWins ==
    SimpleIsCandidate /\ Acceptable(route_pattern_simple(route.a_rect, route.b_rect))

DetourWins ==
    ~SimpleWins /\ Acceptable(route_pattern_detour(route.a_rect, route.b_rect))

\* C15: the simple pattern is tried only when the successor's left edge is at
\* or beyond the predecessor's right edge plus the clearance, the detour
\* pattern always after it; the call returns the simplified first of them
\* that starts and ends at the anchors and is clear of every inflated
\* rectangle, and the grid search runs only when both were rejected.
C15_TierSelection ==
    /\ route.pc \in {"attempts", "astar", "returned"} =>
           /\ Len(route.attempts) = (IF SimpleIsCandidate THEN 2 ELSE 1)
           /\ Last(route.attempts) = route_pattern_detour(route.a_rect, route.b_rect)
           /\ SimpleIsCandidate =>
                  route.attempts[1] = route_pattern_simple(route.a_rect, route.b_rect)
    /\ RouteReturned =>
           /\ SimpleWins <=> route.tier = "simple"
           /\ DetourWins <=> route.tier = "detour"
           /\ route.tier = "simple" =>
                  route.result = _simplify_polyline(route_pattern_simple(route.a_rect, route.b_rect))
           /\ route.tier = "detour" =>
                  route.result = _simplify_polyline(route_pattern_detour(route.a_rect, route.b_rect))
    /\ route.pc = "astar" => ~SimpleWins /\ ~DetourWins

\* The simple pattern was a candidate and was rejected, and the detour
\* pattern was returned.
C15_Witness ==
    /\ RouteReturned /\ route.tier = "detour"
    /\ SimpleIsCandidate /\ ~SimpleWins
    /\ Len(route.result) > 2

----------------------------------------------------------------------------
\* C16 and C17 are about main, under SpecCli.

\* The plan has phases at most: no work package, milestone or group.
EmptyPlan(ns) == \A i \in 1..Len(ns) : ns[i].kind = "Phase"

MainExited == cli.pc = "exit"

\* render_gantt has been called and has come back.
Rendered == Len(cli.stages) >= 4 /\ cli.stages[4] = "render"

\* C16: on a plan without work packages, milestones and groups,
\* schedule_project returns the plan unchanged and raises nothing, rendering
\* raises an error and produces no image, and render_gantt on an empty row
\* list raises 'rows must not be empty'.
C16_AsStated ==
    EmptyPlan(nodes) =>
        /\ pc # "raised"
        /\ (pc = "returned" => nodes = entry /\ error = NoError)
        /\ (Rendered => cli.render_exc # "none" /\ ~cli.image)
        /\ (Rendered /\ cli.rows = <<>> => cli.render_exc = "rows must not be empty")

\* The stages main has gone through, in order.
StageOrder == <<"load", "schedule", "flatten", "render", "view">>

ValidationClasses == {"YAMLError", "ProjectValidationError"}
SchedulingClasses == {"ProjectValidationError", "SchedulingError"}

\* C17: main runs load, schedule, flatten, render in that order and stops at
\* the first failing stage; it returns 2 exactly when loading raises a YAML
\* or validation error or scheduling raises a validation or scheduling error,
\* 1 when the file is missing or a stage raises anything else, 0 otherwise;
\* rendering is not attempted after a failed load or schedule, and a viewer
\* that fails to open leaves the exit code 0.
C17_ExitCodes ==
    /\ cli.stages = SubSeq(StageOrder, 1, Len(cli.stages))
    /\ cli.load_exc # "none" => cli.stages = <<"load">>
    /\ cli.schedule_exc # "none" => cli.stages = <<"load", "schedule">>
    /\ Rendered => cli.load_exc = "none" /\ cli.schedule_exc = "none" /\ pc = "returned"
    /\ MainExited =>
          /\ cli.exit_code \in {0, 1, 2}
          /\ cli.exit_code = 2 <=> \/ cli.load_exc \in ValidationClasses
                                   \/ cli.schedule_exc \in SchedulingClasses
          /\ cli.exit_code = 1 <=> \/ cli.load_exc \notin ValidationClasses \cup {"none"}
                                   \/ cli.schedule_exc \notin SchedulingClasses \cup {"none"}
                                   \/ cli.render_exc # "none"
          /\ cli.load_exc = "FileNotFoundError" => cli.exit_code = 1
          /\ cli.exit_code = 0 => Rendered /\ cli.image
          /\ cli.viewer = "failed" => cli.exit_code = 0

\* main has stopped after the schedule stage and returned 2 for a
\* SchedulingError.
C17_Witness ==
    /\ MainExited
    /\ cli.exit_code = 2
    /\ cli.schedule_exc = "SchedulingError"
    /\ cli.stages = <<"load", "schedule">>

----------------------------------------------------------------------------
\* C18 to C20 are about the dependency graph, under SpecGraph.

\* _toposort has returned its order.
Sorted ==
    \/ pc \in {"schedule_work_packages", "returned"}
    \/ Raised /\ error.reason \in {"duration", "no-start", "precedes"}

\* The places of work package i in the order.
Places(i) == {c \in 1..Len(topo_order) : topo_order[c] = i}

Pos(i) == CHOOSE c \in Places(i) : TRUE

\* A depends_on list of the plan names the same predecessor twice.
RepeatedDep(ns) ==
    \E i \in WpSet(ns) : \E k, m \in 1..Len(ns[i].depends_on) :
        k # m /\ ns[i].depends_on[k] = ns[i].depends_on[m]

\* C18: once _assert_no_cycles has passed, _toposort does not raise 'Cycle
\* detected during toposort', and the order it returns holds every work
\* package exactly once, each after all the work packages it depends on.
C18_ToposortOrder ==
    /\ error.reason # "toposort"
    /\ Sorted =>
          /\ Len(topo_order) = Cardinality(WpSet(nodes))
          /\ \A i \in WpSet(nodes) :
                /\ Cardinality(Places(i)) = 1
                /\ \A d \in DirectDeps(nodes, i) : Pos(d) < Pos(i)

\* Three work packages are ordered, one of them after a predecessor that its
\* depends_on names twice.
C18_Witness ==
    /\ Sorted
    /\ Len(topo_order) = 3
    /\ RepeatedDep(nodes)

\* The number of work packages emitted when work package i became ready:
\* the place of the last of its dependencies, 0 without dependencies.
ReadyAt(i) ==
    IF DirectDeps(nodes, i) = {} THEN 0
    ELSE MaxOf({Pos(d) : d \in DirectDeps(nodes, i)})

\* Work packages i and j were both ready, and neither emitted, at some moment.
ReadyTogether(i, j) ==
    \E t \in 0..Len(topo_order) :
        ReadyAt(i) <= t /\ ReadyAt(j) <= t /\ t < Pos(i) /\ t < Pos(j)

\* C19 as stated: of two work packages that are both ready to be emitted, the
\* one earlier in the document is emitted first.
C19_AsStated ==
    Sorted =>
        \A i, j \in WpSet(nodes) :
            i < j /\ ReadyTogether(i, j) => Pos(i) < Pos(j)

\* C19: the order is first in, first out: a work package that became ready
\* earlier is emitted earlier, and of two that became ready at the same
\* moment (both without dependencies, or both released by the same
\* predecessor) the one earlier in the document is emitted first; the order
\* is thereby fixed by the document.
C19_ReadyOrder ==
    Sorted =>
        \A i, j \in WpSet(nodes) :
            Pos(i) < Pos(j) <=>
                \/ ReadyAt(i) < ReadyAt(j)
                \/ ReadyAt(i) = ReadyAt(j) /\ i < j

\* Two work packages were ready together after becoming ready at different
\* moments, and the later one in the document was emitted first.
C19_Witness ==
    /\ Sorted
    /\ \E i, j \in WpSet(nodes) :
          /\ i < j /\ ReadyTogether(i, j)
          /\ ReadyAt(j) < ReadyAt(i)
          /\ Pos(j) < Pos(i)

\* v in depends_on(u), for wbs u and v.
DependsOn(ns, u, v) ==
    \E i \in WpSet(ns) :
        ns[i].wbs = u /\ \E k \in 1..Len(ns[i].depends_on) : ns[i].depends_on[k] = v

\* C20: the path of a reported cycle starts and ends with the same wbs, each
\* wbs of it lists the next one in its depends_on, and no wbs appears in it
\* twice but for that first and last one.
C20_GenuineCycle ==
    CycleError =>
        /\ Len(error.path) >= 2
        /\ error.path[1] = error.path[Len(error.path)]
        /\ \A k \in 1..(Len(error.path) - 1) :
              DependsOn(nodes, error.path[k], error.path[k + 1])
        /\ \A k, m \in 1..Len(error.path) :
              k < m /\ error.path[k] = error.path[m] => k = 1 /\ m = Len(error.path)

\* A cycle of two work packages is reported that the search entered from a
\* third work package outside it.
C20_Witness ==
    /\ CycleError
    /\ Len(error.path) = 3
    /\ error.path[1] # nodes[2].wbs
    /\ error.path[2] # nodes[2].wbs

----------------------------------------------------------------------------
\* C21 to C25 are about the polylines of the router, under SpecRoute.

\* The segment from p to q is horizontal or vertical.
Orthogonal(p, q) == p[1] = q[1] \/ p[2] = q[2]

\* C21 as stated: each segment of a returned polyline is horizontal or
\* vertical, the first and last segments of a grid-search polyline included.
C21_AsStated ==
    RouteReturned =>
        \A i \in 1..(Len(route.result) - 1) :
            Orthogonal(route.result[i], route.result[i + 1])

\* C24: a returned polyline of any tier begins at the predecessor's anchor
\* and ends at the successor's anchor.
C24_Anchored ==
    RouteReturned =>
        /\ route.result # <<>>
        /\ route.result[1] = StartPoint(route.a_rect)
        /\ Last(route.result) = GoalPoint(route.b_rect)

\* A grid-search polyline of at least three points, simplified, is returned.
C24_Witness ==
    /\ RouteReturned
    /\ route.tier = "astar"
    /\ Len(route.result) >= 3

\* The interior point q is on the line through its neighbours p and r.
Collinear(p, q, r) == Cross(p, q, r) = 0

\* C25 as stated: a returned polyline of any tier has no two consecutive
\* identical points and no interior point collinear with its neighbours, and
\* _simplify_polyline returns it unchanged.
C25_AsStated ==
    RouteReturned =>
        /\ \A i \in 1..(Len(route.result) - 1) : route.result[i] # route.result[i + 1]
        /\ \A i \in 2..(Len(route.result) - 1) :
              ~Collinear(route.result[i - 1], route.result[i], route.result[i + 1])
        /\ _simplify_polyline(route.result) = route.result

----------------------------------------------------------------------------
\* C22: the grid search against the cheapest path of the grid, found layer by
\* layer of cost.

\* The grid search was run, and what astar_route returned (<<>> for None).
Searched == RouteReturned /\ route.tier \in {"astar", "lane"}

CellPath == AstarPath(route.astar, route.start_cell, route.goal_cell)

Dirs == {Moves[m] : m \in 1..Len(Moves)}

\* The state reached from search state s by a move in direction d.
Moved(s, d) == <<<<s[1][1] + d[1], s[1][2] + d[2]>>, d>>

\* The least cost of a path from the start to the goal, -1 when there is
\* none. layers[c + 1] holds the search states (cell, incoming direction)
\* whose cheapest path costs c, seen the states of all layers: a state of
\* cost c comes by a straight move (or the first move) from one of cost
\* c - 1, or by a turn from one of cost c - 1 - bend_penalty.
RECURSIVE Cheapest(_, _, _, _)
Cheapest(grid, goal, layers, seen) ==
    LET c == Len(layers)
        straight == {Moved(x[1], x[2]) :
                        x \in {y \in layers[c] \X Dirs : y[1][2] \in {NoDir, y[2]}}}
        turned == IF c - bend_penalty < 1 THEN {}
                  ELSE {Moved(x[1], x[2]) :
                           x \in {y \in layers[c - bend_penalty] \X Dirs :
                                     y[1][2] \notin {NoDir, y[2]}}}
        new == {t \in straight \cup turned : ~is_blocked(grid, t[1]) /\ t \notin seen}
        idle == \A k \in 1..c : k >= c - bend_penalty => layers[k] = {}
    IN  IF \E s \in layers[c] : s[1] = goal THEN c - 1
        ELSE IF idle THEN -1
        ELSE Cheapest(grid, goal, Append(layers, new), seen \cup new)

CheapestCost(grid, start, goal) ==
    Cheapest(grid, goal, <<{<<start, NoDir>>}>>, {<<start, NoDir>>})

\* The cost of a path of cells from its k-th move on: 1 per move, and
\* bend_penalty more for a move in another direction than the move before.
RECURSIVE CostFrom(_, _)
CostFrom(path, k) ==
    IF k >= Len(path) THEN 0
    ELSE LET d == <<path[k + 1][1] - path[k][1], path[k + 1][2] - path[k][2]>>
             before == <<path[k][1] - path[k - 1][1], path[k][2] - path[k - 1][2]>>
         IN  (IF k > 1 /\ before # d THEN 1 + bend_penalty ELSE 1) + CostFrom(path, k + 1)

PathCost(path) == CostFrom(path, 1)

Bends(path) ==
    Cardinality({k \in 2..(Len(path) - 1) :
        <<path[k + 1][1] - path[k][1], path[k + 1][2] - path[k][2]>>
            # <<path[k][1] - path[k - 1][1], path[k][2] - path[k - 1][2]>>})

\* C22: astar_route returns None exactly when no path of unblocked cells
\* joins the start cell to the goal cell; otherwise its path starts at the
\* start cell, ends at the goal cell, moves between 4-adjacent cells, visits
\* no blocked cell and costs the least such a path can cost.
C22_GridSearch ==
    Searched =>
        /\ CellPath = <<>> <=> route.goal_cell \notin Flood(route.grid, {route.start_cell})
        /\ CellPath # <<>> =>
              /\ CellPath[1] = route.start_cell
              /\ Last(CellPath) = route.goal_cell
              /\ \A k \in 1..(Len(CellPath) - 1) :
                    <<CellPath[k + 1][1] - CellPath[k][1],
                      CellPath[k + 1][2] - CellPath[k][2]>> \in Dirs
              /\ \A k \in 1..Len(CellPath) : ~is_blocked(route.grid, CellPath[k])
              /\ PathCost(CellPath) =
                     CheapestCost(route.grid, route.start_cell, route.goal_cell)

\* The search returned a path with two bends or more around blocked cells.
C22_Witness ==
    /\ Searched
    /\ CellPath # <<>>
    /\ Bends(CellPath) >= 2
    /\ route.grid.blocked # {}

----------------------------------------------------------------------------
\* C23 and C30 are about the charts of scheduled plans, under SpecChart.

\* route_dependency has been called for a pair of bars.
Routing == route.a_rect # <<>>

\* The successor's entry x, the guard rail, and the k-th candidate column.
DetourEntry(b_rect) == b_rect[1] - ROUTE_X_PAD
GuardRail(a_rect, b_rect) == Lower(a_rect[1], b_rect[1]) - DETOUR_MARGIN_X
DetourCandidate(a_rect, b_rect, k) ==
    Higher(DetourEntry(b_rect) - k * DETOUR_STEP_X, GuardRail(a_rect, b_rect))

\* The vertical probe at column x, from the predecessor's midline to the
\* successor's, is clear of both inflated rectangles.
ProbeClear(a_rect, b_rect, x) ==
    ~Collides(<<<<x, StartPoint(a_rect)[2]>>, <<x, GoalPoint(b_rect)[2]>>>>,
              <<a_rect, b_rect>>, ROUTE_CLEARANCE)

\* C23 as stated: choose_detour_x returns the first of the candidates, from
\* the successor's entry x leftwards, whose probe is clear of both inflated
\* rectangles, after at most DETOUR_MAX_STEPS shifts: the column is at most
\* DETOUR_MAX_STEPS * DETOUR_STEP_X left of the entry x and not left of the
\* guard rail.
C23_AsStated ==
    Routing =>
        LET a == route.a_rect
            b == route.b_rect
            x == choose_detour_x(a, b)
        IN  /\ \E k \in 0..DETOUR_MAX_STEPS :
                  /\ x = DetourCandidate(a, b, k)
                  /\ ProbeClear(a, b, x)
                  /\ \A j \in 0..(k - 1) : ~ProbeClear(a, b, DetourCandidate(a, b, j))
            /\ DetourEntry(b) - x <= DETOUR_MAX_STEPS * DETOUR_STEP_X
            /\ x >= GuardRail(a, b)

\* The work packages whose bars are being joined: the predecessor and the
\* successor of the dependency routed.
BarNode(rect) ==
    CHOOSE i \in WpSet(nodes) :
        LET rows == to_render_rows(nodes)
        IN  IsDrawnBar(rows[i]) /\ RowRect(rows[i]) = rect

\* The successor starts on the day the predecessor finishes.
ZeroGap ==
    /\ Routing
    /\ nodes[BarNode(route.b_rect)].start_date = finish_date(nodes[BarNode(route.a_rect)])

\* C30: for a dependency whose successor starts on its predecessor's finish
\* date, the successor's left edge is one day left of the predecessor's
\* right edge, the simple pattern is not attempted, and the arrow comes from
\* the detour pattern or the grid search.
C30_ZeroGapRouting ==
    ZeroGap =>
        /\ route.b_rect[1] = route.a_rect[2] - Unit
        /\ ~(route.b_rect[1] >= route.a_rect[2] + ROUTE_CLEARANCE)
        /\ route.attempts = <<route_pattern_detour(route.a_rect, route.b_rect)>>
        /\ RouteReturned => route.tier \in {"detour", "astar"}

\* The arrow of a successor whose start was inferred from its predecessor's
\* finish has been routed.
C30_Witness ==
    /\ ZeroGap
    /\ RouteReturned
    /\ entry[BarNode(route.b_rect)].start_date = None
    /\ Len(nodes[BarNode(route.b_rect)].depends_on) = 1

----------------------------------------------------------------------------
\* C26 is about the rows main flattens the scheduled plan into, under SpecCli.

Flattened == Len(cli.stages) >= 3

\* C26: there is one row per phase and item, in document order, the row at
\* position k having order k (from 0); a phase row has indent 0 and an item
\* the indent of its parent plus 1, its nesting depth; work packages are
\* 'bar' rows, milestones 'lozenge', tasks 'bracket', and each row carries
\* the wbs of the phase it lies in.
C26_Rows ==
    Flattened =>
        /\ Len(cli.rows) = Len(nodes)
        /\ \A k \in 1..Len(nodes) :
              LET row == cli.rows[k]
              IN  /\ row.order = k - 1
                  /\ row.node_id = nodes[k].wbs
                  /\ row.indent = nodes[k].depth
                  /\ nodes[k].kind = "Phase" => row.indent = 0 /\ row.node_type = "phase"
                  /\ nodes[k].kind # "Phase" =>
                        row.indent = cli.rows[Parent(nodes, k)].indent + 1
                  /\ nodes[k].kind = "WorkPackage" => row.node_type = "bar"
                  /\ nodes[k].kind = "Milestone" => row.node_type = "lozenge"
                  /\ nodes[k].kind = "Task" => row.node_type = "bracket"
                  /\ row.phase = nodes[PhaseOf(nodes, k)].wbs

\* The rows of a plan with a task in a task, three levels below the phase.
C26_Witness ==
    /\ Flattened
    /\ \E k \in 1..Len(cli.rows) : cli.rows[k].indent = 3

----------------------------------------------------------------------------
\* C27 is about the plans schedule_project returns, under Spec.

\* Some work package lists work package i in its depends_on.
NamedAsDependency(ns, i) ==
    \E j \in WpSet(ns) : \E k \in 1..Len(ns[j].depends_on) :
        ns[j].depends_on[k] = ns[i].wbs

\* C27: in a plan schedule_project returned, a work package is without a
\* start date only if it was given none, has no dependencies and is in no
\* depends_on list; a work package with dependencies or named in a
\* depends_on list has a start and a finish.
C27_UnresolvedOnlyIsolated ==
    Returned =>
        \A i \in WpSet(nodes) :
            /\ nodes[i].start_date = None =>
                  /\ entry[i].start_date = None
                  /\ ~HasDeps(nodes, i)
                  /\ ~NamedAsDependency(nodes, i)
            /\ (HasDeps(nodes, i) \/ NamedAsDependency(nodes, i)) =>
                  /\ nodes[i].start_date # None
                  /\ finish_date(nodes[i]) # None
                  /\ finish_date(nodes[i]) = FinishOf(nodes[i])

\* A returned plan with a work package left without a start beside a work
\* package whose start was inferred from its dependency.
C27_Witness ==
    /\ Returned
    /\ \E i, j, d \in WpSet(nodes) :
          /\ nodes[i].start_date = None
          /\ entry[j].start_date = None /\ nodes[j].start_date # None
          /\ d \in DepsOf(nodes, j) /\ NamedAsDependency(nodes, d)

----------------------------------------------------------------------------
\* C29 is about the hierarchy check of schedule_project, under Spec.

PastHierarchyCheck ==
    \/ pc \in {"validate_dependencies_exist", "assert_no_cycles", "toposort",
               "schedule_work_packages", "returned"}
    \/ Raised /\ error.reason \notin {"duplicate", "hierarchy"}

\* C29: a call on a plan with distinct ids in which some item's id does not
\* start with its parent's id and '.' (at any depth) ends in the hierarchy
\* validation error, raised after the uniqueness check and before the
\* reference and cycle checks, whatever the dependencies are; the call gets
\* past the hierarchy check only if every item's id has its parent's prefix.
C29_HierarchyGate ==
    /\ (Called /\ UniqueIds(entry) /\ ~HierarchyOk(entry)) =>
           /\ pc \in {"validate_unique_wbs", "validate_wbs_hierarchy", "raised"}
           /\ Raised => /\ error.type = "ProjectValidationError"
                        /\ error.reason = "hierarchy"
           /\ nodes = entry /\ topo_order = <<>>
    /\ (Raised /\ error.reason = "hierarchy") =>
           UniqueIds(entry) /\ ~HierarchyOk(entry)
    /\ PastHierarchyCheck => UniqueIds(entry) /\ HierarchyOk(entry)

\* A plan with distinct ids and a dependency graph without fault, rejected
\* because the child of a task lacks the task's prefix.
C29_Witness ==
    /\ Raised /\ error.reason = "hierarchy"
    /\ UniqueIds(entry) /\ RefsResolve(entry) /\ ~HasCycle(entry)
    /\ \E i \in WpSet(entry) :
          /\ entry[i].depth = 2
          /\ error.at = entry[i].wbs
          /\ error.other = entry[Parent(entry, i)].wbs
    /\ \E j \in WpSet(entry) : HasDeps(entry, j)

----------------------------------------------------------------------------
\* C28 is about a second call of schedule_project on the plan the first
\* returned, under SpecAgain; entry is the plan as the latest call found it.

CalledAgain == calls >= 2

\* C28: scheduling is idempotent: a call of schedule_project on a plan an
\* earlier call returned raises nothing and changes no start date, at any
\* of its steps and when it returns.
C28_Idempotent ==
    CalledAgain =>
        /\ ~Raised
        /\ \A i \in 1..Len(nodes) : nodes[i].start_date = entry[i].start_date
        /\ nodes = entry

\* The second call has returned a plan in which a work package starts on the
\* latest finish day of its two dependencies, which finish on different
\* days: the case of equality in the check of the start.
C28_Witness ==
    /\ CalledAgain /\ Returned
    /\ \E i \in WpSet(nodes) :
          /\ HasDeps(nodes, i)
          /\ nodes[i].start_date = LatestFinish(nodes, i)
          /\ \E d1, d2 \in DepsOf(nodes, i) :
                FinishOf(nodes[d1]) < FinishOf(nodes[d2])
====
